---------------------------- MODULE Spec2Model ----------------------------
(***************************************************************************)
(* The hand-gesture interpretation module of splat                         *)
(* (src/app/utils/gestureDetection.ts): pure functions from a 21-point     *)
(* hand skeleton to a gesture state, and the two-hand predicates.          *)
(*                                                                         *)
(* Numbers.  The source computes in IEEE doubles; the model computes in    *)
(* exact arithmetic.  A coordinate is an integer count of 1/Unit, so that  *)
(* 1.0 is Unit.  Input skeletons lie on the 0.01 grid (multiples of Cell), *)
(* which makes every division the functions perform (by 2, 3 and 4) exact. *)
(* A square root is carried exactly as a surd: Sqrt(n) is the record       *)
(* [sq |-> n] and every comparison on it is decided on the squares.        *)
(* An angle in radians is carried in eighths of a turn (multiples of       *)
(* pi/4) as a closed interval [lo, hi]: lo = hi where atan2 is exactly a   *)
(* multiple of pi/4, and hi = lo + 1 where it lies strictly between two.   *)
(*                                                                         *)
(* Specifications.  The functions are pure, so each group of functions is  *)
(* checked under its own specification, whose initial states are the input *)
(* frames that exercise the group and whose actions are the group's calls: *)
(* SpecPinch, SpecFingers, SpecRotation, SpecPalm, SpecKnuckles,           *)
(* SpecUtility, SpecDistance, SpecFrame, SpecGesture, SpecDegenerate.      *)
(*                                                                         *)
(* The components that call the module every frame are checked under       *)
(* their own specifications: SpecTracker (hold-based mode toggle),         *)
(* SpecOnset (onset-based toggles of the earlier revisions), SpecStyle      *)
(* (drawing style from the left hand's rotation), SpecBoxes and            *)
(* SpecParticles (bodies and particles of the physics world), SpecToggle   *)
(* (pending drawings, pinch and grab across a toggle), SpecAnalysis (shape *)
(* analysis requests) and SpecSplat (the GestureTracker's splat gesture).  *)
(***************************************************************************)
EXTENDS Integers, Sequences, FiniteSets, TLC

(***************************************************************************)
(* Number scale.                                                           *)
(***************************************************************************)
Unit == 1200
Cell == Unit \div 100

Abs(n) == IF n < 0 THEN -n ELSE n

\* Math.pow(v, 2)
Pow2(v) == v * v

\* Math.sqrt(n), exact: the non-negative real whose square is n.
Sqrt(n) == [sq |-> n]

\* r < t, r <= t, for a surd r and a number t >= 0 (in 1/Unit).
RootLt(r, t) == r.sq < t * t
RootLe(r, t) == r.sq <= t * t

\* Variant: the ratio dropped and the comparison made non-strict.
RootGtTimes_unscaled(a, b, num, den) == a.sq >= b.sq

\* a > b * (num / den), for surds a and b and a ratio num/den >= 0.
RootGtTimes(a, b, num, den) == a.sq * den * den > b.sq * num * num

(***************************************************************************)
(* The values  int - sqrt(sq) / den  (den > 0): the numbers that           *)
(* 1 - dist / threshold and its clamps range over.                         *)
(***************************************************************************)
Const(k) == [int |-> k, sq |-> 0, den |-> 1]

\* dist / threshold
RootDiv(r, t) == [int |-> 0, sq |-> r.sq, den |-> t]

\* 1 - q
OneMinus(q) == [int |-> 1 - q.int, sq |-> q.sq, den |-> q.den]

\* v <= w, decided exactly: sqrt(A) - sqrt(B) <= k * D on the squares.
NumLeq(v, w) ==
  LET A == w.sq * v.den * v.den
      B == v.sq * w.den * w.den
      D == v.den * w.den
      k == w.int - v.int
      pos == A - B - k * k * D * D
      neg == B - A - k * k * D * D
  IN  IF k >= 0
      THEN A <= B \/ pos <= 0 \/ (B > 0 /\ pos * pos <= 4 * k * k * D * D * B)
      ELSE neg >= 0 /\ (A = 0 \/ neg * neg >= 4 * k * k * D * D * A)

NumEq(v, w) == NumLeq(v, w) /\ NumLeq(w, v)
NumLt(v, w) == ~NumLeq(w, v)

\* Math.max, Math.min
MathMax(a, b) == IF NumLeq(a, b) THEN b ELSE a
MathMin(a, b) == IF NumLeq(a, b) THEN a ELSE b

(***************************************************************************)
(* enum HandLandmark                                                       *)
(***************************************************************************)
WRIST == 0
THUMB_CMC == 1
THUMB_MCP == 2
THUMB_IP == 3
THUMB_TIP == 4
INDEX_FINGER_MCP == 5
INDEX_FINGER_PIP == 6
INDEX_FINGER_DIP == 7
INDEX_FINGER_TIP == 8
MIDDLE_FINGER_MCP == 9
MIDDLE_FINGER_PIP == 10
MIDDLE_FINGER_DIP == 11
MIDDLE_FINGER_TIP == 12
RING_FINGER_MCP == 13
RING_FINGER_PIP == 14
RING_FINGER_DIP == 15
RING_FINGER_TIP == 16
PINKY_MCP == 17
PINKY_PIP == 18
PINKY_DIP == 19
PINKY_TIP == 20

HandLandmark == WRIST .. PINKY_TIP

\* interface Landmark
Landmark(x, y, z) == [x |-> x, y |-> y, z |-> z]

\* An optional argument: << >> when omitted, << v >> when given as v.
Undefined == << >>
Given(v) == << v >>

(***************************************************************************)
(* distance, distance2D                                                    *)
(***************************************************************************)
\* Variant: the depth term subtracted.
distance_depthSubtracted(a, b) ==
  Sqrt(Pow2(a.x - b.x) + Pow2(a.y - b.y) - Pow2(a.z - b.z))

distance(a, b) ==
  Sqrt(Pow2(a.x - b.x) + Pow2(a.y - b.y) + Pow2(a.z - b.z))

distance2D(a, b) ==
  Sqrt(Pow2(a.x - b.x) + Pow2(a.y - b.y))

(***************************************************************************)
(* getLandmarkName                                                         *)
(***************************************************************************)
getLandmarkName(landmark) ==
  CASE landmark = THUMB_TIP -> "thumb"
    [] landmark = INDEX_FINGER_TIP -> "index"
    [] landmark = MIDDLE_FINGER_TIP -> "middle"
    [] landmark = RING_FINGER_TIP -> "ring"
    [] landmark = PINKY_TIP -> "pinky"
    [] OTHER -> "unknown"

(***************************************************************************)
(* detectPinch                                                             *)
(***************************************************************************)
\* threshold: number = 0.08
DEFAULT_PINCH_THRESHOLD == (8 * Unit) \div 100

\* Variant: the comparison made non-strict.
pinchTest_nonStrict(dist, threshold) == RootLe(dist, threshold)

\* const isPinching = dist < threshold;
pinchTest(dist, threshold) == RootLt(dist, threshold)

\* Variant: the strength not clamped at 0.
pinchStrength_noClamp(dist, threshold) ==
  MathMin(Const(1), OneMinus(RootDiv(dist, threshold)))

\* const strength = Math.max(0, Math.min(1, 1 - (dist / threshold)));
pinchStrength(dist, threshold) ==
  MathMax(Const(0), MathMin(Const(1), OneMinus(RootDiv(dist, threshold))))

\* Variant: the position taken at the first finger's tip instead of the midpoint.
detectPinch_firstTipPosition(lm, finger1, finger2, thresholdArg) ==
  LET threshold == IF thresholdArg = Undefined
                   THEN DEFAULT_PINCH_THRESHOLD ELSE thresholdArg[1]
      dist == distance(lm[finger1], lm[finger2])
  IN  [isPinching |-> pinchTest(dist, threshold),
       fingers |-> <<getLandmarkName(finger1), getLandmarkName(finger2)>>,
       strength |-> pinchStrength(dist, threshold),
       position |-> [x |-> lm[finger1].x, y |-> lm[finger1].y]]

detectPinch(lm, finger1, finger2, thresholdArg) ==
  LET threshold == IF thresholdArg = Undefined
                   THEN DEFAULT_PINCH_THRESHOLD ELSE thresholdArg[1]
      tip1 == lm[finger1]
      tip2 == lm[finger2]
      dist == distance(tip1, tip2)
      isPinching == pinchTest(dist, threshold)
      strength == pinchStrength(dist, threshold)
      position == [x |-> (tip1.x + tip2.x) \div 2,
                   y |-> (tip1.y + tip2.y) \div 2]
  IN  [isPinching |-> isPinching,
       fingers |-> <<getLandmarkName(finger1), getLandmarkName(finger2)>>,
       strength |-> strength,
       position |-> position]

(***************************************************************************)
(* detectAllPinches                                                        *)
(***************************************************************************)
fingerTips ==
  << [name |-> "thumb", landmark |-> THUMB_TIP],
     [name |-> "index", landmark |-> INDEX_FINGER_TIP],
     [name |-> "middle", landmark |-> MIDDLE_FINGER_TIP],
     [name |-> "ring", landmark |-> RING_FINGER_TIP],
     [name |-> "pinky", landmark |-> PINKY_TIP] >>

\* Variant: the commented-out loop over the other finger pairs enabled.
RECURSIVE allPairsLoop(_, _, _, _)
allPairsLoop(lm, i, j, pinches) ==
  IF i > Len(fingerTips) THEN pinches
  ELSE IF j > Len(fingerTips) THEN allPairsLoop(lm, i + 1, i + 2, pinches)
  ELSE LET pinch == detectPinch(lm, fingerTips[i].landmark,
                                fingerTips[j].landmark, Undefined)
       IN  allPairsLoop(lm, i, j + 1,
                        IF pinch.isPinching THEN Append(pinches, pinch)
                        ELSE pinches)

\* for (let i = 1; i < fingerTips.length; i++)  (0-based i is i + 1 here)
RECURSIVE thumbLoop(_, _, _)
thumbLoop(lm, i, pinches) ==
  IF i > Len(fingerTips) THEN pinches
  ELSE LET pinch == detectPinch(lm, THUMB_TIP, fingerTips[i].landmark, Undefined)
       IN  thumbLoop(lm, i + 1,
                     IF pinch.isPinching THEN Append(pinches, pinch)
                     ELSE pinches)

detectAllPinches_withOtherPairs(lm) == allPairsLoop(lm, 2, 3, thumbLoop(lm, 2, <<>>))

detectAllPinches(lm) == thumbLoop(lm, 2, <<>>)

(***************************************************************************)
(* Math.atan2 and radToDeg                                                 *)
(***************************************************************************)
\* Math.atan2(y, x) in units of pi/4, as the interval [lo, hi].
Atan2(y, x) ==
  LET exact(k) == [lo |-> k, hi |-> k]
      open(k) == [lo |-> k, hi |-> k + 1]
  IN  CASE y = 0 /\ x >= 0 -> exact(0)
        [] y = 0 /\ x < 0 -> exact(4)
        [] y > 0 /\ x = 0 -> exact(2)
        [] y < 0 /\ x = 0 -> exact(-2)
        [] y > 0 /\ x > 0 -> IF y < x THEN open(0)
                             ELSE IF y = x THEN exact(1) ELSE open(1)
        [] y > 0 /\ x < 0 -> IF y > -x THEN open(2)
                             ELSE IF y = -x THEN exact(3) ELSE open(3)
        [] y < 0 /\ x > 0 -> IF -y < x THEN open(-1)
                             ELSE IF -y = x THEN exact(-1) ELSE open(-2)
        [] y < 0 /\ x < 0 -> IF -y > -x THEN open(-3)
                             ELSE IF -y = -x THEN exact(-3) ELSE open(-4)

\* rad * (180 / Math.PI): pi/4 is 180/4 degrees.
radToDeg(rad) == [lo |-> (rad.lo * 180) \div 4, hi |-> (rad.hi * 180) \div 4]

(***************************************************************************)
(* calculateHandRotation                                                   *)
(***************************************************************************)
\* Variant: the Math.abs of the pitch left out.
pitchAngle_noAbs(pitchDz, pitchDy) == Atan2(pitchDz, pitchDy)

\* const pitch = Math.atan2(pitchDz, Math.abs(pitchDy));
pitchAngle(pitchDz, pitchDy) == Atan2(pitchDz, Abs(pitchDy))

calculateHandRotation(lm) ==
  LET wrist == lm[WRIST]
      indexMCP == lm[INDEX_FINGER_MCP]
      pinkyMCP == lm[PINKY_MCP]
      middleMCP == lm[MIDDLE_FINGER_MCP]
      middleTip == lm[MIDDLE_FINGER_TIP]
      palmCenterX == (wrist.x + indexMCP.x + pinkyMCP.x) \div 3
      palmCenterY == (wrist.y + indexMCP.y + pinkyMCP.y) \div 3
      dx == middleTip.x - palmCenterX
      dy == middleTip.y - palmCenterY
      roll == Atan2(dy, dx)
      pitchDy == middleMCP.y - wrist.y
      pitchDz == middleMCP.z - wrist.z
      pitch == pitchAngle(pitchDz, pitchDy)
      yawDx == indexMCP.x - pinkyMCP.x
      yawDz == indexMCP.z - pinkyMCP.z
      yaw == Atan2(yawDz, yawDx)
  IN  [roll |-> radToDeg(roll), pitch |-> radToDeg(pitch), yaw |-> radToDeg(yaw)]

(***************************************************************************)
(* isFingerExtended, detectFingerStates                                    *)
(***************************************************************************)
\* Variant: the distances taken in 3D.
isFingerExtended_3D(lm, fingerTip, fingerPIP, wristArg) ==
  LET wrist == IF wristArg = Undefined THEN WRIST ELSE wristArg[1]
      tipDist == distance(lm[fingerTip], lm[wrist])
      pipDist == distance(lm[fingerPIP], lm[wrist])
  IN  RootGtTimes(tipDist, pipDist, 11, 10)

\* Variant: the comparison made non-strict.
isFingerExtended_nonStrict(lm, fingerTip, fingerPIP, wristArg) ==
  LET wrist == IF wristArg = Undefined THEN WRIST ELSE wristArg[1]
      tipDist == distance2D(lm[fingerTip], lm[wrist])
      pipDist == distance2D(lm[fingerPIP], lm[wrist])
  IN  ~RootGtTimes(pipDist, tipDist, 10, 11)

isFingerExtended(lm, fingerTip, fingerPIP, wristArg) ==
  LET wrist == IF wristArg = Undefined THEN WRIST ELSE wristArg[1]
      tip == lm[fingerTip]
      pip == lm[fingerPIP]
      wristPoint == lm[wrist]
      tipDist == distance2D(tip, wristPoint)
      pipDist == distance2D(pip, wristPoint)
  IN  RootGtTimes(tipDist, pipDist, 11, 10)

\* Variant: the ring finger compared against its PIP joint.
detectFingerStates_ringPIP(lm) ==
  [thumb |-> isFingerExtended(lm, THUMB_TIP, THUMB_IP, Undefined),
   index |-> isFingerExtended(lm, INDEX_FINGER_TIP, INDEX_FINGER_PIP, Undefined),
   middle |-> isFingerExtended(lm, MIDDLE_FINGER_TIP, MIDDLE_FINGER_PIP, Undefined),
   ring |-> isFingerExtended(lm, RING_FINGER_TIP, RING_FINGER_PIP, Undefined),
   pinky |-> isFingerExtended(lm, PINKY_TIP, PINKY_PIP, Undefined)]

detectFingerStates(lm) ==
  [thumb |-> isFingerExtended(lm, THUMB_TIP, THUMB_IP, Undefined),
   index |-> isFingerExtended(lm, INDEX_FINGER_TIP, INDEX_FINGER_PIP, Undefined),
   middle |-> isFingerExtended(lm, MIDDLE_FINGER_TIP, MIDDLE_FINGER_PIP, Undefined),
   ring |-> isFingerExtended(lm, RING_FINGER_TIP, RING_FINGER_DIP, Undefined),
   pinky |-> isFingerExtended(lm, PINKY_TIP, PINKY_PIP, Undefined)]

(***************************************************************************)
(* calculatePalmCenter, calculatePalmArea                                  *)
(***************************************************************************)
\* Variant: the middle knuckle averaged in.
calculatePalmCenter_withMiddleMCP(lm) ==
  LET wrist == lm[WRIST]
      indexMCP == lm[INDEX_FINGER_MCP]
      pinkyMCP == lm[PINKY_MCP]
      middleMCP == lm[MIDDLE_FINGER_MCP]
  IN  [x |-> (wrist.x + indexMCP.x + pinkyMCP.x + middleMCP.x) \div 4,
       y |-> (wrist.y + indexMCP.y + pinkyMCP.y + middleMCP.y) \div 4]

calculatePalmCenter(lm) ==
  LET wrist == lm[WRIST]
      indexMCP == lm[INDEX_FINGER_MCP]
      pinkyMCP == lm[PINKY_MCP]
  IN  [x |-> (wrist.x + indexMCP.x + pinkyMCP.x) \div 3,
       y |-> (wrist.y + indexMCP.y + pinkyMCP.y) \div 3]

\* The shoelace loop from index i (1-based here) on, area so far `area`.
RECURSIVE shoelaceLoop(_, _, _)
shoelaceLoop(points, i, area) ==
  IF i > Len(points) THEN area
  ELSE LET j == (i % Len(points)) + 1
       IN  shoelaceLoop(points, i + 1,
                        area + points[i].x * points[j].y
                             - points[j].x * points[i].y)

\* Variant: the Math.abs left out.
palmAreaResult_signed(area) == area \div 2

\* return Math.abs(area) / 2;   (in 1/Unit^2)
palmAreaResult(area) == Abs(area) \div 2

calculatePalmArea(lm) ==
  LET points == << lm[WRIST], lm[INDEX_FINGER_MCP], lm[MIDDLE_FINGER_MCP],
                   lm[RING_FINGER_MCP], lm[PINKY_MCP] >>
  IN  palmAreaResult(shoelaceLoop(points, 1, 0))

(***************************************************************************)
(* isPalmFacingCamera                                                      *)
(***************************************************************************)
\* The margins 0.02 and 0.05.
DEPTH_MARGIN == (2 * Unit) \div 100
PALM_FLAT_MARGIN == (5 * Unit) \div 100

\* Variant: the wrist required to be strictly behind the knuckle, no margin.
wristBehindPalm_noMargin(wrist, middleMCP) == wrist.z > middleMCP.z

\* const wristBehindPalm = wrist.z > middleMCP.z - 0.02;
wristBehindPalm(wrist, middleMCP) == wrist.z > middleMCP.z - DEPTH_MARGIN

\* const palmFlatToCamera = Math.abs(indexMCP.z - pinkyMCP.z) < 0.05;
palmFlatToCamera(indexMCP, pinkyMCP) == Abs(indexMCP.z - pinkyMCP.z) < PALM_FLAT_MARGIN

\* Variant: the depth axis read the other way round.
fingersForward_reversed(middleTip, wrist) == middleTip.z > wrist.z + DEPTH_MARGIN

\* const fingersForward = middleTip.z < wrist.z + 0.02;
fingersForward(middleTip, wrist) == middleTip.z < wrist.z + DEPTH_MARGIN

isPalmFacingCamera(lm) ==
  LET wrist == lm[WRIST]
      middleMCP == lm[MIDDLE_FINGER_MCP]
      middleTip == lm[MIDDLE_FINGER_TIP]
      indexMCP == lm[INDEX_FINGER_MCP]
      pinkyMCP == lm[PINKY_MCP]
  IN  /\ wristBehindPalm(wrist, middleMCP)
      /\ palmFlatToCamera(indexMCP, pinkyMCP)
      /\ fingersForward(middleTip, wrist)

(***************************************************************************)
(* calculateHandSize                                                       *)
(***************************************************************************)
\* A sum of surds divided by a count, kept exactly: the squares summed over,
\* in order, and the divisor.
calculateHandSize(lm) ==
  LET wrist == lm[WRIST]
      tips == << lm[THUMB_TIP], lm[INDEX_FINGER_TIP], lm[MIDDLE_FINGER_TIP],
                 lm[RING_FINGER_TIP], lm[PINKY_TIP] >>
      totalDistance == [i \in 1 .. Len(tips) |-> distance2D(wrist, tips[i]).sq]
  IN  [sum |-> totalDistance, den |-> Len(tips)]

(***************************************************************************)
(* analyzeGesture                                                          *)
(***************************************************************************)
\* Object.values(fingerStates)
ObjectValues(fingerStates) ==
  << fingerStates.thumb, fingerStates.index, fingerStates.middle,
     fingerStates.ring, fingerStates.pinky >>

\* Variant: a fist taken to be any hand that is not open.
isFistOf_notOpen(fingerStates) ==
  ~(\A i \in 1 .. 5 : ObjectValues(fingerStates)[i])

\* Object.values(fingerStates).every(extended => !extended)
isFistOf(fingerStates) ==
  \A i \in 1 .. Len(ObjectValues(fingerStates)) : ~ObjectValues(fingerStates)[i]

\* Object.values(fingerStates).every(extended => extended)
isOpenOf(fingerStates) ==
  \A i \in 1 .. Len(ObjectValues(fingerStates)) : ObjectValues(fingerStates)[i]

\* Variant: the palm-facing field taken from the open-hand test.
analyzeGesture_facingFromOpen(lm) ==
  LET fingerStates == detectFingerStates(lm)
  IN  [pinches |-> detectAllPinches(lm),
       rotation |-> calculateHandRotation(lm),
       palmCenter |-> calculatePalmCenter(lm),
       palmArea |-> calculatePalmArea(lm),
       isOpen |-> isOpenOf(fingerStates),
       isFist |-> isFistOf(fingerStates),
       isPalmFacingCamera |-> isOpenOf(fingerStates),
       handSize |-> calculateHandSize(lm),
       fingerStates |-> fingerStates]

analyzeGesture(lm) ==
  LET pinches == detectAllPinches(lm)
      rotation == calculateHandRotation(lm)
      palmCenter == calculatePalmCenter(lm)
      palmArea == calculatePalmArea(lm)
      fingerStates == detectFingerStates(lm)
      handSize == calculateHandSize(lm)
      isOpen == isOpenOf(fingerStates)
      isFist == isFistOf(fingerStates)
      palmFacingCamera == isPalmFacingCamera(lm)
  IN  [pinches |-> pinches,
       rotation |-> rotation,
       palmCenter |-> palmCenter,
       palmArea |-> palmArea,
       isOpen |-> isOpen,
       isFist |-> isFist,
       isPalmFacingCamera |-> palmFacingCamera,
       handSize |-> handSize,
       fingerStates |-> fingerStates]

(***************************************************************************)
(* normalizeToScreen.  The point is in 1/Unit, the canvas size in pixels,  *)
(* the result in 1/Unit of a pixel.                                        *)
(***************************************************************************)
\* Variant: both coordinates scaled by the width.
normalizeToScreen_widthOnly(normalized, width, height) ==
  [x |-> normalized.x * width, y |-> normalized.y * width]

normalizeToScreen(normalized, width, height) ==
  [x |-> normalized.x * width, y |-> normalized.y * height]

(***************************************************************************)
(* rotationToSliderValue.  Angles and range ends are whole numbers (of     *)
(* degrees, of slider units); a quotient is kept exactly as num / den.     *)
(***************************************************************************)
DEFAULT_SLIDER_MIN == 0
DEFAULT_SLIDER_MAX == 100
FULL_TURN == 360
HALF_TURN == 180

\* The JavaScript remainder a % n for n > 0: truncating division, so the
\* result has the sign of the dividend.
Remainder(a, n) == IF a >= 0 THEN a % n ELSE 0 - ((0 - a) % n)

\* Variant: the angle taken as a fraction of the turn without wrapping.
normalizedAngle_noWrap(angle) ==
  [num |-> angle + HALF_TURN, den |-> FULL_TURN]

\* ((angle + 180) % 360) / 360
normalizedAngle(angle) ==
  [num |-> Remainder(angle + HALF_TURN, FULL_TURN), den |-> FULL_TURN]

rotationToSliderValue(angle, minArg, maxArg) ==
  LET min == IF minArg = Undefined THEN DEFAULT_SLIDER_MIN ELSE minArg[1]
      max == IF maxArg = Undefined THEN DEFAULT_SLIDER_MAX ELSE maxArg[1]
      normalized == normalizedAngle(angle)
  IN  [num |-> min * normalized.den + normalized.num * (max - min),
       den |-> normalized.den]

(***************************************************************************)
(* detectKnucklesTogetherGesture                                           *)
(***************************************************************************)
\* Variant: the wrist averaged in with the knuckles.
KNUCKLE_MCPS_withWrist ==
  << WRIST, INDEX_FINGER_MCP, MIDDLE_FINGER_MCP, RING_FINGER_MCP, PINKY_MCP >>

KNUCKLE_MCPS ==
  << INDEX_FINGER_MCP, MIDDLE_FINGER_MCP, RING_FINGER_MCP, PINKY_MCP >>

\* The threshold 0.12.
KNUCKLES_THRESHOLD == (12 * Unit) \div 100

\* knuckles.reduce((s, p) => s + p.<axis>, 0)
RECURSIVE reduceSum(_, _, _)
reduceSum(values, i, s) ==
  IF i > Len(values) THEN s ELSE reduceSum(values, i + 1, s + values[i])

detectKnucklesTogetherGesture(leftHandLandmarks, rightHandLandmarks) ==
  LET n == Len(KNUCKLE_MCPS)
      leftKnuckles == [i \in 1 .. n |-> leftHandLandmarks[KNUCKLE_MCPS[i]]]
      rightKnuckles == [i \in 1 .. n |-> rightHandLandmarks[KNUCKLE_MCPS[i]]]
      xs(k) == [i \in 1 .. n |-> k[i].x]
      ys(k) == [i \in 1 .. n |-> k[i].y]
      zs(k) == [i \in 1 .. n |-> k[i].z]
      leftCx == reduceSum(xs(leftKnuckles), 1, 0) \div Len(leftKnuckles)
      leftCy == reduceSum(ys(leftKnuckles), 1, 0) \div Len(leftKnuckles)
      leftCz == reduceSum(zs(leftKnuckles), 1, 0) \div Len(leftKnuckles)
      rightCx == reduceSum(xs(rightKnuckles), 1, 0) \div Len(rightKnuckles)
      rightCy == reduceSum(ys(rightKnuckles), 1, 0) \div Len(rightKnuckles)
      rightCz == reduceSum(zs(rightKnuckles), 1, 0) \div Len(rightKnuckles)
      leftCenter == Landmark(leftCx, leftCy, leftCz)
      rightCenter == Landmark(rightCx, rightCy, rightCz)
      d == distance(leftCenter, rightCenter)
  IN  RootLt(d, KNUCKLES_THRESHOLD)

(***************************************************************************)
(* State.  The gesture module itself keeps no state: what the model holds  *)
(* is the caller's frame (the skeletons it passes), the last call made     *)
(* into the module with the value it returned, and the refs of the         *)
(* HandTracker component that calls the module from its per-frame          *)
(* callback (src/unnamed/part_004).                                        *)
(***************************************************************************)
VARIABLES
  landmarks,        \* the skeleton passed as `landmarks` / `leftHandLandmarks`
  otherLandmarks,   \* the second hand of the frame (`rightHandLandmarks`)
  call,             \* the last call: [fn |-> name, args |-> arguments]
  result,           \* the value it returned
  returned,         \* history: the GestureStates returned so far, in call
                    \* order, each with the hand (1 or 2) it was asked for
  multiHandedness,  \* results.multiHandedness of the frame: << >> if absent,
                    \* else << labels >>, one label per detected hand
  interactionModeRef,        \* interactionModeRef.current
  knucklesCooldownRef,       \* knucklesCooldownRef.current
  prevKnucklesTogetherRef,   \* prevKnucklesTogetherRef.current
  knucklesTogetherSinceRef,  \* knucklesTogetherSinceRef.current: << >> is null
  clock,            \* Date.now(), in ms since the component mounted
  timers,           \* due times of the pending setTimeout callbacks
  tracker,          \* which revision of the HandTracker component is mounted
  prevWakandaStateRef,        \* prevWakandaStateRef.current (part_006)
  wakandaForeverCooldownRef,  \* wakandaForeverCooldownRef.current (part_006)
  drawingStyleRef,              \* drawingStyleRef.current
  leftHandRotationFreehandRef,  \* leftHandRotationFreehandRef.current
  drawingStyle,                 \* React state drawingStyle
  styleEffectPending,           \* a render with a new drawingStyle awaits its effect
  angleHistory,     \* history: wrist-to-middle-MCP offsets of the left-hand
                    \* frames handled in drawing mode
  boxesRef,            \* boxesRef.current: the tracked boxes, oldest first
  boxHealthRef,        \* boxHealthRef.current: box -> health
  bodiesCreated,       \* number of Matter bodies made for boxes so far
  waterParticlesRef,   \* waterParticlesRef.current, oldest first
  fireParticlesRef,    \* fireParticlesRef.current, oldest first
  particlesCreated,    \* number of water and fire particles made so far
  drawingsRef,         \* drawingsRef.current: the pending drawings
  drawingStrokesRef,   \* drawingStrokesRef.current
  currentStrokeRef,    \* currentStrokeRef.current
  handSizeHistoryRef,  \* handSizeHistoryRef.current of GestureTracker
  prevSplatStateRef,   \* prevSplatStateRef.current
  splatCooldownRef,    \* splatCooldownRef.current
  splatActive,         \* React state splatActive
  splatTimers,         \* pending setTimeout callbacks of the splat trigger
  splatFrames,         \* history: number of frames GestureTracker received
  splatsTriggered,     \* history: number of SPLAT triggers
  twoHandFramesSinceSplat,  \* history: two-hand frames after the last trigger
  lastSplatAt,         \* history: time of the last trigger
  isIsAnalyzingRef,    \* isIsAnalyzingRef.current: the analysis lock
  isAnalyzing,         \* React state isAnalyzing
  pendingRequests,     \* fetch('/api/shape-agent') calls not yet settled
  analysesStarted,     \* history: number of requests started so far
  grabbedBoxRef,       \* grabbedBoxRef.current: << >> for null, else << box >>
  pinchStartRef,       \* pinchStartRef.current: << >> for null, else << position >>
  pinchCurrentRef,     \* pinchCurrentRef.current
  currentMaterialRef,  \* currentMaterialRef.current
  handedToCreators,    \* history: the creator calls of the latest frame
  heldSince,        \* history: start of the current run of frames on which
                    \* the gesture was seen true (<< >> if the last frame
                    \* did not show it)
  lastToggleAt      \* history: time of the last mode toggle (<< >> if none)

frameVars == << landmarks, otherLandmarks >>

\* State of the other revisions of the component.
onsetVars == << tracker, prevWakandaStateRef, wakandaForeverCooldownRef >>
styleVars == << drawingStyleRef, leftHandRotationFreehandRef, drawingStyle,
               styleEffectPending, angleHistory >>
sceneVars == << boxesRef, boxHealthRef, bodiesCreated, waterParticlesRef,
               fireParticlesRef, particlesCreated, drawingsRef, drawingStrokesRef,
               currentStrokeRef >>
splatVars == << handSizeHistoryRef, prevSplatStateRef, splatCooldownRef,
               splatActive, splatTimers, splatFrames, splatsTriggered,
               twoHandFramesSinceSplat, lastSplatAt >>
analysisVars == << isIsAnalyzingRef, isAnalyzing, pendingRequests, analysesStarted >>
toggleVars == << grabbedBoxRef, pinchStartRef, pinchCurrentRef, currentMaterialRef,
                handedToCreators >>
laterVars == << analysisVars, toggleVars >>
restVars == << sceneVars, splatVars, laterVars >>
componentVars == << onsetVars, styleVars, restVars >>
trackerVars ==
  << multiHandedness, interactionModeRef, knucklesCooldownRef,
     prevKnucklesTogetherRef, knucklesTogetherSinceRef, clock, timers,
     heldSince, lastToggleAt, componentVars >>

vars == << landmarks, otherLandmarks, call, result, returned, multiHandedness,
           interactionModeRef, knucklesCooldownRef, prevKnucklesTogetherRef,
           knucklesTogetherSinceRef, clock, timers, heldSince, lastToggleAt,
           tracker, prevWakandaStateRef, wakandaForeverCooldownRef,
           drawingStyleRef, leftHandRotationFreehandRef, drawingStyle,
           styleEffectPending, angleHistory,
           boxesRef, boxHealthRef, bodiesCreated, waterParticlesRef,
           fireParticlesRef, particlesCreated, drawingsRef, drawingStrokesRef,
           currentStrokeRef,
           handSizeHistoryRef, prevSplatStateRef, splatCooldownRef, splatActive,
           splatTimers, splatFrames, splatsTriggered, twoHandFramesSinceSplat,
           lastSplatAt,
           isIsAnalyzingRef, isAnalyzing, pendingRequests, analysesStarted,
           grabbedBoxRef, pinchStartRef, pinchCurrentRef, currentMaterialRef,
           handedToCreators >>

\* The refs of the onset-based revisions at their useRef initial values.
OnsetRefsMounted ==
  /\ prevWakandaStateRef = FALSE
  /\ wakandaForeverCooldownRef = FALSE

\* Drawing style: useState('box'), useRef('box'), useRef(false).
StyleMounted ==
  /\ drawingStyleRef = "box"
  /\ leftHandRotationFreehandRef = FALSE
  /\ drawingStyle = "box"
  /\ styleEffectPending = FALSE
  /\ angleHistory = << >>

\* The physics scene and the drawing lists: all useRef([]) / new Map().
SceneMounted ==
  /\ boxesRef = << >>
  /\ boxHealthRef = << >>
  /\ bodiesCreated = 0
  /\ waterParticlesRef = << >>
  /\ fireParticlesRef = << >>
  /\ particlesCreated = 0
  /\ drawingsRef = << >>
  /\ drawingStrokesRef = << >>
  /\ currentStrokeRef = << >>

\* GestureTracker (part_001): empty hand-size histories, no splat yet.
SplatMounted ==
  /\ handSizeHistoryRef = [left |-> << >>, right |-> << >>]
  /\ prevSplatStateRef = FALSE
  /\ splatCooldownRef = FALSE
  /\ splatActive = FALSE
  /\ splatTimers = {}
  /\ splatFrames = 0
  /\ splatsTriggered = 0
  /\ twoHandFramesSinceSplat = 0
  /\ lastSplatAt = << >>

\* Shape analysis: useState(false), useRef(false), no request made.
AnalysisMounted ==
  /\ isIsAnalyzingRef = FALSE
  /\ isAnalyzing = FALSE
  /\ pendingRequests = {}
  /\ analysesStarted = 0

\* Pinch and grab refs: useRef(null); material 'solid'.
PinchMounted ==
  /\ grabbedBoxRef = << >>
  /\ pinchStartRef = << >>
  /\ pinchCurrentRef = << >>
  /\ currentMaterialRef = "solid"
  /\ handedToCreators = << >>

\* Every ref of a component at its useRef initial value, no timer pending,
\* no frame received yet.
RefsMounted ==
  /\ multiHandedness = << >>
  /\ interactionModeRef = "drawing"
  /\ knucklesCooldownRef = FALSE
  /\ prevKnucklesTogetherRef = FALSE
  /\ knucklesTogetherSinceRef = << >>
  /\ clock = 0
  /\ timers = {}
  /\ heldSince = << >>
  /\ lastToggleAt = << >>
  /\ OnsetRefsMounted
  /\ StyleMounted
  /\ SceneMounted
  /\ SplatMounted
  /\ AnalysisMounted
  /\ PinchMounted

\* The hold-based component (part_004) as mounted.
TrackerMounted ==
  /\ tracker = "part_004"
  /\ RefsMounted

\* No GestureState returned yet.
NothingReturned == << >>

NoCall == [fn |-> "none", args |-> << >>]

\* A landmark given in cells of 0.01.
G(x, y, z) == Landmark(x * Cell, y * Cell, z * Cell)

\* `p` moved by (dx, dy, dz) cells.
Moved(p, dx, dy, dz) == Landmark(p.x + dx * Cell, p.y + dy * Cell, p.z + dz * Cell)

\* An open hand held upright, in cells; the skeleton every input family varies.
BaseHand ==
  [i \in HandLandmark |->
     CASE i = WRIST -> G(50, 80, 0)
       [] i = THUMB_CMC -> G(44, 76, 0)
       [] i = THUMB_MCP -> G(39, 70, 0)
       [] i = THUMB_IP -> G(35, 64, 0)
       [] i = THUMB_TIP -> G(32, 58, 0)
       [] i = INDEX_FINGER_MCP -> G(45, 60, 0)
       [] i = INDEX_FINGER_PIP -> G(44, 52, 0)
       [] i = INDEX_FINGER_DIP -> G(43, 46, 0)
       [] i = INDEX_FINGER_TIP -> G(43, 41, 0)
       [] i = MIDDLE_FINGER_MCP -> G(50, 58, 0)
       [] i = MIDDLE_FINGER_PIP -> G(50, 49, 0)
       [] i = MIDDLE_FINGER_DIP -> G(50, 43, 0)
       [] i = MIDDLE_FINGER_TIP -> G(50, 38, 0)
       [] i = RING_FINGER_MCP -> G(55, 60, 0)
       [] i = RING_FINGER_PIP -> G(56, 52, 0)
       [] i = RING_FINGER_DIP -> G(56, 47, 0)
       [] i = RING_FINGER_TIP -> G(57, 42, 0)
       [] i = PINKY_MCP -> G(59, 63, 0)
       [] i = PINKY_PIP -> G(61, 57, 0)
       [] i = PINKY_DIP -> G(62, 53, 0)
       [] i = PINKY_TIP -> G(63, 49, 0)]

\* `lm` with the landmarks in DOMAIN `over` replaced.
With(lm, over) == [i \in HandLandmark |-> IF i \in DOMAIN over THEN over[i] ELSE lm[i]]

TipLandmarks ==
  {THUMB_TIP, INDEX_FINGER_TIP, MIDDLE_FINGER_TIP, RING_FINGER_TIP, PINKY_TIP}

(***************************************************************************)
(* The module's functions as calls.  Every function is synchronous: the    *)
(* caller makes a call when it is not inside one, the call returns its     *)
(* value, and the caller consumes the value before its next statement.     *)
(***************************************************************************)
Returns(fn, args, value) ==
  /\ call = NoCall
  /\ call' = [fn |-> fn, args |-> args]
  /\ result' = value
  /\ UNCHANGED << frameVars, returned, trackerVars >>

\* Explicit thresholds a caller passes (0.05, the historical value, and 0.12).
PinchThresholds == {Undefined, Given((5 * Unit) \div 100), Given((12 * Unit) \div 100)}

\* The caller takes the returned value and goes on with the same frame.
Consume ==
  /\ call # NoCall
  /\ call' = NoCall
  /\ result' = << >>
  /\ UNCHANGED << frameVars, returned, trackerVars >>

CallDetectPinch ==
  \E finger1 \in TipLandmarks, finger2 \in TipLandmarks, threshold \in PinchThresholds :
    Returns("detectPinch", << finger1, finger2, threshold >>,
            detectPinch(landmarks, finger1, finger2, threshold))

CallDetectAllPinches ==
  Returns("detectAllPinches", << >>, detectAllPinches(landmarks))

(***************************************************************************)
(* Pinch inputs: the thumb tip fixed, the other four tips on a lattice of  *)
(* PinchStep cells around it (index in the x-z plane, middle along x, ring *)
(* along y, pinky along z).                                                *)
(***************************************************************************)
PinchGridMax == 2
PinchStep == 4

PinchSkeleton(a, c, m, r, p) ==
  LET thumb == G(40, 50, 0)
  IN  With(BaseHand,
           (THUMB_TIP :> thumb)
           @@ (INDEX_FINGER_TIP :> Moved(thumb, a * PinchStep, 0, c * PinchStep))
           @@ (MIDDLE_FINGER_TIP :> Moved(thumb, m * PinchStep, 0, 0))
           @@ (RING_FINGER_TIP :> Moved(thumb, 0, r * PinchStep, 0))
           @@ (PINKY_TIP :> Moved(thumb, 0, 0, p * PinchStep)))

PinchSkeletons ==
  { PinchSkeleton(a, c, m, r, p) :
      a \in 0 .. PinchGridMax, c \in 0 .. PinchGridMax, m \in 0 .. PinchGridMax,
      r \in 0 .. PinchGridMax, p \in 0 .. PinchGridMax }

InitPinch ==
  /\ landmarks \in PinchSkeletons
  /\ otherLandmarks = BaseHand
  /\ call = NoCall
  /\ result = << >>
  /\ returned = NothingReturned
  /\ TrackerMounted

NextPinch == CallDetectPinch \/ CallDetectAllPinches \/ Consume

SpecPinch == InitPinch /\ [][NextPinch]_vars

(***************************************************************************)
(* Helpers of the properties: squared distances taken from the state.      *)
(***************************************************************************)
SqDist3(a, b) ==
  (a.x - b.x) * (a.x - b.x) + (a.y - b.y) * (a.y - b.y) + (a.z - b.z) * (a.z - b.z)

SqDist2(a, b) == (a.x - b.x) * (a.x - b.x) + (a.y - b.y) * (a.y - b.y)

\* The threshold in force in a detectPinch call.
ThresholdOf(args) == IF args[3] = << >> THEN 96 ELSE args[3][1]

IsZero(v) == NumLeq(v, Const(0)) /\ NumLeq(Const(0), v)
IsOne(v) == NumLeq(v, Const(1)) /\ NumLeq(Const(1), v)

(***************************************************************************)
(* C1.  detectPinch reports isPinching exactly when the 3D distance of the *)
(* two fingertips is strictly below the threshold (0.08 when omitted):     *)
(* false at distance equal to the threshold, true at distance 0.           *)
(***************************************************************************)
C1_PinchIffBelowThreshold ==
  call.fn = "detectPinch" =>
    LET d2 == SqDist3(landmarks[call.args[1]], landmarks[call.args[2]])
        t == ThresholdOf(call.args)
    IN  /\ result.isPinching <=> (d2 < t * t)
        /\ d2 = t * t => ~result.isPinching
        /\ d2 = 0 => result.isPinching

\* A default-threshold call on two tips exactly 0.08 apart, in depth only.
C1_Witness ==
  /\ call.fn = "detectPinch"
  /\ call.args = << THUMB_TIP, PINKY_TIP, Undefined >>
  /\ SqDist2(landmarks[THUMB_TIP], landmarks[PINKY_TIP]) = 0
  /\ SqDist3(landmarks[THUMB_TIP], landmarks[PINKY_TIP]) = 96 * 96
  /\ ~result.isPinching

(***************************************************************************)
(* C2.  For every threshold > 0 the strength of detectPinch lies in        *)
(* [0, 1], is 1 at distance 0, is 0 at or beyond the threshold, and never  *)
(* increases when the tip distance increases.                              *)
(***************************************************************************)
C2_StrengthClampedMonotone ==
  call.fn = "detectPinch" =>
    LET d2 == SqDist3(landmarks[call.args[1]], landmarks[call.args[2]])
        t == ThresholdOf(call.args)
    IN  /\ NumLeq(Const(0), result.strength)
        /\ NumLeq(result.strength, Const(1))
        /\ d2 = 0 => IsOne(result.strength)
        /\ d2 >= t * t => IsZero(result.strength)
        /\ \A g1 \in TipLandmarks, g2 \in TipLandmarks :
             SqDist3(landmarks[g1], landmarks[g2]) >= d2 =>
               NumLeq(detectPinch(landmarks, g1, g2, call.args[3]).strength,
                      result.strength)

\* A call on tips farther apart than the threshold, and another pair in the
\* same skeleton strictly closer with a strictly larger strength.
C2_Witness ==
  /\ call.fn = "detectPinch"
  /\ SqDist3(landmarks[call.args[1]], landmarks[call.args[2]])
       > ThresholdOf(call.args) * ThresholdOf(call.args)
  /\ IsZero(result.strength)
  /\ \E g1 \in TipLandmarks, g2 \in TipLandmarks :
       LET s == detectPinch(landmarks, g1, g2, call.args[3]).strength
       IN  NumLt(result.strength, s) /\ NumLt(s, Const(1))

(***************************************************************************)
(* C3.  detectAllPinches returns 0 to 4 entries, each pinching and each    *)
(* <<"thumb", f>> with f a non-thumb finger, no finger twice, in the order *)
(* index, middle, ring, pinky; thumb-f is present exactly when the thumb   *)
(* tip and the tip of f are less than 0.08 apart.  Pairs without the thumb *)
(* produce no entry.                                                       *)
(***************************************************************************)
FingerRank(name) ==
  CASE name = "index" -> 1 [] name = "middle" -> 2
    [] name = "ring" -> 3 [] name = "pinky" -> 4 [] OTHER -> 0

TipOf(name) ==
  CASE name = "index" -> INDEX_FINGER_TIP [] name = "middle" -> MIDDLE_FINGER_TIP
    [] name = "ring" -> RING_FINGER_TIP [] name = "pinky" -> PINKY_TIP

NonThumbFingers == {"index", "middle", "ring", "pinky"}

C3_AllPinchesThumbOnlyOrdered ==
  call.fn = "detectAllPinches" =>
    /\ Len(result) \in 0 .. 4
    /\ \A i \in 1 .. Len(result) :
         /\ result[i].isPinching
         /\ Len(result[i].fingers) = 2
         /\ result[i].fingers[1] = "thumb"
         /\ result[i].fingers[2] \in NonThumbFingers
    /\ \A i \in 1 .. Len(result), j \in 1 .. Len(result) :
         i < j => FingerRank(result[i].fingers[2]) < FingerRank(result[j].fingers[2])
    /\ \A f \in NonThumbFingers :
         (\E i \in 1 .. Len(result) : result[i].fingers[2] = f)
           <=> SqDist3(landmarks[THUMB_TIP], landmarks[TipOf(f)]) < 96 * 96

\* Index and middle tips coincide, 0.08 from the thumb: neither is reported,
\* while ring and pinky are.
C3_Witness ==
  /\ call.fn = "detectAllPinches"
  /\ landmarks[INDEX_FINGER_TIP] = landmarks[MIDDLE_FINGER_TIP]
  /\ Len(result) = 2
  /\ result[1].fingers = << "thumb", "ring" >>
  /\ result[2].fingers = << "thumb", "pinky" >>

(***************************************************************************)
(* Finger inputs: around a fixed wrist, every finger's reference joint at  *)
(* a fixed place and its tip at 1.0, 1.1, 1.2, ... times the joint's 2D    *)
(* distance from the wrist, each finger in its own direction; the tips at  *)
(* one of two depths, the joints at a third.  The ring finger's PIP is     *)
(* half as far from the wrist as its DIP.                                  *)
(***************************************************************************)
FingerExtMax == 2

FingerSkeleton(t, i, m, r, p, depth) ==
  LET w == BaseHand[WRIST]
  IN  With(BaseHand,
           (THUMB_IP :> Moved(w, -10, 0, -3))
           @@ (THUMB_TIP :> Moved(w, -(10 + t), 0, 9 * depth))
           @@ (INDEX_FINGER_PIP :> Moved(w, -6, -8, -3))
           @@ (INDEX_FINGER_TIP :> Moved(w, 0, -(10 + i), 9 * depth))
           @@ (MIDDLE_FINGER_PIP :> Moved(w, 0, -20, -3))
           @@ (MIDDLE_FINGER_TIP :> Moved(w, 0, -(20 + 2 * m), 9 * depth))
           @@ (RING_FINGER_PIP :> Moved(w, 3, -4, -3))
           @@ (RING_FINGER_DIP :> Moved(w, 6, -8, -3))
           @@ (RING_FINGER_TIP :> Moved(w, 0, -(10 + r), 9 * depth))
           @@ (PINKY_PIP :> Moved(w, 8, -6, -3))
           @@ (PINKY_TIP :> Moved(w, 10 + p, 0, 9 * depth)))

FingerSkeletons ==
  { FingerSkeleton(t, i, m, r, p, depth) :
      t \in 0 .. FingerExtMax, i \in 0 .. FingerExtMax, m \in 0 .. FingerExtMax,
      r \in 0 .. FingerExtMax, p \in 0 .. FingerExtMax, depth \in 0 .. 1 }

ReferenceJoints ==
  {THUMB_IP, INDEX_FINGER_PIP, MIDDLE_FINGER_PIP, RING_FINGER_PIP, RING_FINGER_DIP,
   PINKY_PIP}

WristArguments == {Undefined, Given(MIDDLE_FINGER_MCP)}

CallIsFingerExtended ==
  \E fingerTip \in TipLandmarks, fingerPIP \in ReferenceJoints, wrist \in WristArguments :
    Returns("isFingerExtended", << fingerTip, fingerPIP, wrist >>,
            isFingerExtended(landmarks, fingerTip, fingerPIP, wrist))

CallDetectFingerStates ==
  Returns("detectFingerStates", << >>, detectFingerStates(landmarks))

CallAnalyzeGesture ==
  Returns("analyzeGesture", << >>, analyzeGesture(landmarks))

InitFingers ==
  /\ landmarks \in FingerSkeletons
  /\ otherLandmarks = BaseHand
  /\ call = NoCall
  /\ result = << >>
  /\ returned = NothingReturned
  /\ TrackerMounted

NextFingers ==
  CallIsFingerExtended \/ CallDetectFingerStates \/ CallAnalyzeGesture \/ Consume

SpecFingers == InitFingers /\ [][NextFingers]_vars

\* tip farther than 1.1 times pip from w, in 2D, on the squares.
Farther2D(lm, tip, pip, w) ==
  100 * SqDist2(lm[tip], lm[w]) > 121 * SqDist2(lm[pip], lm[w])

\* `lm` with every depth replaced: by 0, and by a different depth per landmark.
Flattened(lm) == [i \in HandLandmark |-> Landmark(lm[i].x, lm[i].y, 0)]
Skewed(lm) == [i \in HandLandmark |-> Landmark(lm[i].x, lm[i].y, (i - 10) * 5 * Cell)]

WristOf(args) == IF args[3] = << >> THEN 0 ELSE args[3][1]

(***************************************************************************)
(* C4.  isFingerExtended is true exactly when the 2D distance tip-wrist is *)
(* strictly greater than 1.1 times the 2D distance pip-wrist; the depths   *)
(* of the landmarks never change the result.                               *)
(***************************************************************************)
C4_ExtendedIff2DRatio ==
  call.fn = "isFingerExtended" =>
    /\ result <=> Farther2D(landmarks, call.args[1], call.args[2], WristOf(call.args))
    /\ result = isFingerExtended(Flattened(landmarks),
                                 call.args[1], call.args[2], call.args[3])
    /\ result = isFingerExtended(Skewed(landmarks),
                                 call.args[1], call.args[2], call.args[3])

\* The index tip exactly 1.1 times as far as its PIP in 2D and at another
\* depth than the PIP and the wrist: not extended.
C4_Witness ==
  /\ call.fn = "isFingerExtended"
  /\ call.args = << INDEX_FINGER_TIP, INDEX_FINGER_PIP, Undefined >>
  /\ 100 * SqDist2(landmarks[INDEX_FINGER_TIP], landmarks[WRIST])
       = 121 * SqDist2(landmarks[INDEX_FINGER_PIP], landmarks[WRIST])
  /\ landmarks[INDEX_FINGER_TIP].z > landmarks[WRIST].z
  /\ landmarks[INDEX_FINGER_PIP].z < landmarks[WRIST].z
  /\ result = FALSE

(***************************************************************************)
(* C5.  detectFingerStates returns exactly the keys thumb, index, middle,  *)
(* ring, pinky, each the 1.1-ratio test against the wrist with the joint   *)
(* pairs (THUMB_TIP, THUMB_IP), (INDEX_FINGER_TIP, INDEX_FINGER_PIP),      *)
(* (MIDDLE_FINGER_TIP, MIDDLE_FINGER_PIP), (RING_FINGER_TIP,               *)
(* RING_FINGER_DIP), (PINKY_TIP, PINKY_PIP): the ring finger against its   *)
(* DIP joint, not its PIP joint.                                           *)
(***************************************************************************)
C5_FingerStatesJointPairs ==
  call.fn = "detectFingerStates" =>
    /\ DOMAIN result = {"thumb", "index", "middle", "ring", "pinky"}
    /\ result.thumb <=> Farther2D(landmarks, 4, 3, 0)
    /\ result.index <=> Farther2D(landmarks, 8, 6, 0)
    /\ result.middle <=> Farther2D(landmarks, 12, 10, 0)
    /\ result.ring <=> Farther2D(landmarks, 16, 15, 0)
    /\ result.pinky <=> Farther2D(landmarks, 20, 18, 0)

\* The ring tip beyond 1.1 times its PIP but not beyond 1.1 times its DIP:
\* reported not extended.
C5_Witness ==
  /\ call.fn = "detectFingerStates"
  /\ Farther2D(landmarks, 16, 14, 0)
  /\ ~Farther2D(landmarks, 16, 15, 0)
  /\ result.ring = FALSE
  /\ result.index = TRUE

(***************************************************************************)
(* C6.  In every GestureState of analyzeGesture, isOpen is true exactly    *)
(* when all five fingerStates are true and isFist exactly when all five    *)
(* are false; the two are never both true, and a state with a finger       *)
(* extended and a finger not extended has both false.                      *)
(***************************************************************************)
StatesOf(gesture) ==
  { gesture.fingerStates[f] : f \in {"thumb", "index", "middle", "ring", "pinky"} }

C6_OpenFistExclusive ==
  call.fn = "analyzeGesture" =>
    /\ result.isOpen <=> StatesOf(result) = {TRUE}
    /\ result.isFist <=> StatesOf(result) = {FALSE}
    /\ ~(result.isOpen /\ result.isFist)
    /\ StatesOf(result) = {TRUE, FALSE} => ~result.isOpen /\ ~result.isFist

\* Thumb, index and middle extended, ring and pinky not: neither open nor fist.
C6_Witness ==
  /\ call.fn = "analyzeGesture"
  /\ result.fingerStates = [thumb |-> TRUE, index |-> TRUE, middle |-> TRUE,
                            ring |-> FALSE, pinky |-> FALSE]
  /\ ~result.isOpen
  /\ ~result.isFist

(***************************************************************************)
(* Rotation inputs: the wrist and the pinky knuckle fixed; the middle      *)
(* knuckle moved in y and z, the index knuckle in x and z, the middle      *)
(* fingertip in x and y around the palm.                                   *)
(***************************************************************************)
RotationGridMax == 2
RotationStep == 3

RotationSkeleton(my, mz, ix, iz, tx, ty) ==
  LET w == BaseHand[WRIST]
      pinky == BaseHand[PINKY_MCP]
  IN  With(BaseHand,
           (MIDDLE_FINGER_MCP :> Moved(w, 0, my * RotationStep, mz * RotationStep))
           @@ (INDEX_FINGER_MCP :> Moved(pinky, ix * RotationStep, 0, iz * RotationStep))
           @@ (MIDDLE_FINGER_TIP :> Moved(pinky, -3 + tx * RotationStep,
                                          5 + ty * RotationStep, 0)))

RotationSkeletons ==
  { RotationSkeleton(my, mz, ix, iz, tx, ty) :
      my \in -RotationGridMax .. RotationGridMax,
      mz \in -RotationGridMax .. RotationGridMax,
      ix \in -RotationGridMax .. RotationGridMax,
      iz \in -RotationGridMax .. RotationGridMax,
      tx \in -1 .. 1, ty \in -1 .. 1 }

CallCalculateHandRotation ==
  Returns("calculateHandRotation", << >>, calculateHandRotation(landmarks))

InitRotation ==
  /\ landmarks \in RotationSkeletons
  /\ otherLandmarks = BaseHand
  /\ call = NoCall
  /\ result = << >>
  /\ returned = NothingReturned
  /\ TrackerMounted

NextRotation == CallCalculateHandRotation \/ Consume

SpecRotation == InitRotation /\ [][NextRotation]_vars

\* The angle of the vector (x, y) in degrees, to the nearest 45 below and above.
Between(lo, hi) == [lo |-> lo, hi |-> hi]

DegreesOf(y, x) ==
  LET ay == IF y < 0 THEN -y ELSE y
      ax == IF x < 0 THEN -x ELSE x
      \* in the first quadrant, from the x axis
      first == IF ay = 0 THEN Between(0, 0)
               ELSE IF ax = 0 THEN Between(90, 90)
               ELSE IF ay < ax THEN Between(0, 45)
               ELSE IF ay = ax THEN Between(45, 45) ELSE Between(45, 90)
      \* mirrored into the upper half plane
      upper == IF x < 0 THEN Between(180 - first.hi, 180 - first.lo) ELSE first
  IN  IF y < 0 THEN Between(-upper.hi, -upper.lo) ELSE upper

(***************************************************************************)
(* C7.  calculateHandRotation returns roll and yaw in [-180, 180] and      *)
(* pitch in [-90, 90] degrees, with                                        *)
(* pitch = atan2(middleMCP.z - wrist.z, |middleMCP.y - wrist.y|) and       *)
(* yaw = atan2(indexMCP.z - pinkyMCP.z, indexMCP.x - pinkyMCP.x).          *)
(***************************************************************************)
C7_RotationRanges ==
  call.fn = "calculateHandRotation" =>
    LET dz == landmarks[9].z - landmarks[0].z
        dy == landmarks[9].y - landmarks[0].y
    IN  /\ -180 <= result.roll.lo /\ result.roll.lo <= result.roll.hi
        /\ result.roll.hi <= 180
        /\ -180 <= result.yaw.lo /\ result.yaw.lo <= result.yaw.hi
        /\ result.yaw.hi <= 180
        /\ -90 <= result.pitch.lo /\ result.pitch.lo <= result.pitch.hi
        /\ result.pitch.hi <= 90
        /\ result.pitch = DegreesOf(dz, IF dy < 0 THEN -dy ELSE dy)
        /\ result.yaw = DegreesOf(landmarks[5].z - landmarks[17].z,
                                  landmarks[5].x - landmarks[17].x)

\* The middle knuckle above the wrist on screen (smaller y) and farther in
\* depth by more than that: pitch between 45 and 90; the index knuckle left of
\* the pinky knuckle at the same depth: yaw exactly 180.
C7_Witness ==
  /\ call.fn = "calculateHandRotation"
  /\ landmarks[9].y < landmarks[0].y
  /\ landmarks[9].z - landmarks[0].z > landmarks[0].y - landmarks[9].y
  /\ result.pitch = [lo |-> 45, hi |-> 90]
  /\ landmarks[5].z = landmarks[17].z
  /\ landmarks[5].x < landmarks[17].x
  /\ result.yaw = [lo |-> 180, hi |-> 180]

(***************************************************************************)
(* Palm inputs.  Facing: the wrist at depth 0, the depths of the middle    *)
(* knuckle, the middle fingertip and the index and pinky knuckles varied   *)
(* in cells of 0.01.  Area: the wrist fixed, the four knuckles anywhere on *)
(* a small square lattice (in any order, so the pentagon may be clockwise, *)
(* counter-clockwise, self-crossing or flat).                              *)
(***************************************************************************)
PalmDepthMax == 3
PalmAreaMax == 1
PalmAreaStep == 10

FacingSkeleton(mz, tz, iz, pz) ==
  With(BaseHand,
       (MIDDLE_FINGER_MCP :> Moved(BaseHand[MIDDLE_FINGER_MCP], 0, 0, mz))
       @@ (MIDDLE_FINGER_TIP :> Moved(BaseHand[MIDDLE_FINGER_TIP], 0, 0, tz))
       @@ (INDEX_FINGER_MCP :> Moved(BaseHand[INDEX_FINGER_MCP], 0, 0, iz))
       @@ (PINKY_MCP :> Moved(BaseHand[PINKY_MCP], 0, 0, pz)))

FacingSkeletons ==
  { FacingSkeleton(mz, tz, iz, pz) :
      mz \in -PalmDepthMax .. PalmDepthMax, tz \in -PalmDepthMax .. PalmDepthMax,
      iz \in -PalmDepthMax .. PalmDepthMax, pz \in -PalmDepthMax .. PalmDepthMax }

AreaLattice == (0 .. PalmAreaMax) \X (0 .. PalmAreaMax)

AreaSkeleton(i, m, r, p) ==
  LET o == G(40, 50, 0)
      at(c) == Moved(o, c[1] * PalmAreaStep, c[2] * PalmAreaStep, c[1] - c[2])
  IN  With(BaseHand,
           (WRIST :> o)
           @@ (INDEX_FINGER_MCP :> at(i))
           @@ (MIDDLE_FINGER_MCP :> at(m))
           @@ (RING_FINGER_MCP :> at(r))
           @@ (PINKY_MCP :> at(p)))

AreaSkeletons ==
  { AreaSkeleton(i, m, r, p) :
      i \in AreaLattice, m \in AreaLattice, r \in AreaLattice, p \in AreaLattice }

CallIsPalmFacingCamera ==
  Returns("isPalmFacingCamera", << >>, isPalmFacingCamera(landmarks))

CallCalculatePalmArea ==
  Returns("calculatePalmArea", << >>, calculatePalmArea(landmarks))

InitPalm ==
  /\ landmarks \in FacingSkeletons \cup AreaSkeletons
  /\ otherLandmarks = BaseHand
  /\ call = NoCall
  /\ result = << >>
  /\ returned = NothingReturned
  /\ TrackerMounted

NextPalm == CallIsPalmFacingCamera \/ CallCalculatePalmArea \/ Consume

SpecPalm == InitPalm /\ [][NextPalm]_vars

Cross(a, b) == a.x * b.y - b.x * a.y

ShoelaceSum(lm) ==
  Cross(lm[0], lm[5]) + Cross(lm[5], lm[9]) + Cross(lm[9], lm[13])
    + Cross(lm[13], lm[17]) + Cross(lm[17], lm[0])

PalmPoints == {0, 5, 9, 13, 17}

Collinear(lm) ==
  \A i \in PalmPoints, j \in PalmPoints :
    (lm[i].x - lm[0].x) * (lm[j].y - lm[0].y)
      = (lm[j].x - lm[0].x) * (lm[i].y - lm[0].y)

Mirrored(lm) == [i \in HandLandmark |-> Landmark(Unit - lm[i].x, lm[i].y, lm[i].z)]

C9_PalmAreaShoelace ==
  call.fn = "calculatePalmArea" =>
    /\ 2 * result = (IF ShoelaceSum(landmarks) < 0 THEN -ShoelaceSum(landmarks)
                     ELSE ShoelaceSum(landmarks))
    /\ result >= 0
    /\ Collinear(landmarks) => result = 0
    /\ result = calculatePalmArea(Flattened(landmarks))
    /\ result = calculatePalmArea(Skewed(landmarks))
    /\ result = calculatePalmArea(Mirrored(landmarks))

\* A pentagon of negative signed sum at uneven depths: a positive area.
C9_Witness ==
  /\ call.fn = "calculatePalmArea"
  /\ ShoelaceSum(landmarks) < 0
  /\ landmarks[5].z # landmarks[9].z
  /\ result > 0

(***************************************************************************)
(* Two-hand inputs: the right hand's knuckles are the left hand's moved by *)
(* a common offset on a lattice of KnuckleStep cells in x, y and z, the    *)
(* right pinky knuckle optionally moved a further step in x; each hand's   *)
(* other 17 landmarks either in place or moved far away.                   *)
(***************************************************************************)
KnuckleOffsetMax == 5
KnuckleStep == 4

Knuckles == {INDEX_FINGER_MCP, MIDDLE_FINGER_MCP, RING_FINGER_MCP, PINKY_MCP}

\* `lm` with every landmark that is not a knuckle moved by `far` cells.
RestMoved(lm, far) ==
  [i \in HandLandmark |-> IF i \in Knuckles THEN lm[i] ELSE Moved(lm[i], far, -far, far)]

RightHand(dx, dy, dz, e, far) ==
  RestMoved([i \in HandLandmark |->
               Moved(BaseHand[i],
                     dx * KnuckleStep + (IF i = PINKY_MCP THEN e * KnuckleStep ELSE 0),
                     dy * KnuckleStep, dz * KnuckleStep)],
            far)

CallDetectKnucklesTogetherGesture ==
  Returns("detectKnucklesTogetherGesture", << >>,
          detectKnucklesTogetherGesture(landmarks, otherLandmarks))

InitKnuckles ==
  /\ \E far \in {0, 30} : landmarks = RestMoved(BaseHand, far)
  /\ \E dx \in 0 .. KnuckleOffsetMax, dy \in 0 .. KnuckleOffsetMax,
        dz \in 0 .. KnuckleOffsetMax, e \in 0 .. 1, far \in {0, 30} :
       otherLandmarks = RightHand(dx, dy, dz, e, far)
  /\ call = NoCall
  /\ result = << >>
  /\ returned = NothingReturned
  /\ TrackerMounted

NextKnuckles == CallDetectKnucklesTogetherGesture \/ Consume

SpecKnuckles == InitKnuckles /\ [][NextKnuckles]_vars

\* Four times the centroid of the knuckles 5, 9, 13, 17 on one axis.
KnuckleSum(lm, axis) == lm[5][axis] + lm[9][axis] + lm[13][axis] + lm[17][axis]

\* Sixteen times the squared distance of the two centroids.
CentroidSqDist16(l, r) ==
  (KnuckleSum(l, "x") - KnuckleSum(r, "x")) * (KnuckleSum(l, "x") - KnuckleSum(r, "x"))
  + (KnuckleSum(l, "y") - KnuckleSum(r, "y")) * (KnuckleSum(l, "y") - KnuckleSum(r, "y"))
  + (KnuckleSum(l, "z") - KnuckleSum(r, "z")) * (KnuckleSum(l, "z") - KnuckleSum(r, "z"))

\* `lm` with every landmark that is not a knuckle put at the origin.
OnlyKnuckles(lm) ==
  [i \in HandLandmark |-> IF i \in {5, 9, 13, 17} THEN lm[i] ELSE Landmark(0, 0, 0)]

(***************************************************************************)
(* C10.  detectKnucklesTogetherGesture is true exactly when the 3D         *)
(* distance of the two hands' centroids of the MCP joints 5, 9, 13, 17 is  *)
(* below 0.12, and false at centroid distance 0.2; no other landmark       *)
(* influences the result.                                                  *)
(***************************************************************************)
C10_KnucklesCentroidDistance ==
  call.fn = "detectKnucklesTogetherGesture" =>
    /\ result <=> CentroidSqDist16(landmarks, otherLandmarks) < 16 * 144 * 144
    /\ CentroidSqDist16(landmarks, otherLandmarks) = 16 * 240 * 240 => result = FALSE
    /\ result = detectKnucklesTogetherGesture(OnlyKnuckles(landmarks),
                                              OnlyKnuckles(otherLandmarks))

\* Centroids 0.11 apart (0.08, 0.04 and 0.04 on x, y and z, plus the pinky
\* knuckle's step) while the wrists are far apart: knuckles together.
C10_Witness ==
  /\ call.fn = "detectKnucklesTogetherGesture"
  /\ CentroidSqDist16(landmarks, otherLandmarks) < 16 * 144 * 144
  /\ CentroidSqDist16(landmarks, otherLandmarks) > 16 * 120 * 120
  /\ SqDist3(landmarks[0], otherLandmarks[0]) > 300 * 300
  /\ result = TRUE

(***************************************************************************)
(* Utility inputs: the index fingertip on a lattice around the middle of   *)
(* the frame, the canvas sizes the components use, angles a whole number   *)
(* of SliderAngleStep degrees up to SliderAngleMax steps either side of 0, *)
(* and the slider ranges of the callers (omitted, 0..100, 0..360) with a   *)
(* negative, an empty and a reversed range.                                *)
(***************************************************************************)
ScreenGridMax == 2
ScreenStep == 25
SliderAngleMax == 12
SliderAngleStep == 45

ScreenSkeletons ==
  { With(BaseHand,
         (INDEX_FINGER_TIP :> G(50 + ScreenStep * i, 50 + ScreenStep * j, 0)))
      : i \in -ScreenGridMax .. ScreenGridMax, j \in -ScreenGridMax .. ScreenGridMax }

CanvasSizes == { << 1280, 720 >>, << 640, 480 >>, << 1, 1 >> }

SliderAngles == { SliderAngleStep * k : k \in -SliderAngleMax .. SliderAngleMax }

SliderRanges ==
  { << Undefined, Undefined >>, << Given(0), Given(100) >>,
    << Given(0), Given(360) >>, << Given(10), Undefined >>,
    << Given(-50), Given(50) >>, << Given(20), Given(20) >>,
    << Given(100), Given(0) >> }

CallNormalizeToScreen ==
  \E i \in {WRIST, INDEX_FINGER_TIP, PINKY_TIP}, size \in CanvasSizes :
    Returns("normalizeToScreen", << i, size[1], size[2] >>,
            normalizeToScreen(landmarks[i], size[1], size[2]))

CallRotationToSliderValue ==
  \E angle \in SliderAngles, range \in SliderRanges :
    Returns("rotationToSliderValue", << angle, range[1], range[2] >>,
            rotationToSliderValue(angle, range[1], range[2]))

InitUtility ==
  /\ landmarks \in ScreenSkeletons
  /\ otherLandmarks = BaseHand
  /\ call = NoCall
  /\ result = << >>
  /\ returned = NothingReturned
  /\ TrackerMounted

NextUtility == CallNormalizeToScreen \/ CallRotationToSliderValue \/ Consume

SpecUtility == InitUtility /\ [][NextUtility]_vars

\* The range ends a call uses, defaults filled in.
MinOf(args) == IF args[2] = Undefined THEN 0 ELSE args[2][1]
MaxOf(args) == IF args[3] = Undefined THEN 100 ELSE args[3][1]

\* Equality and order of two quotients with positive denominators.
QuotEq(p, q) == p.num * q.den = q.num * p.den
QuotLeq(p, q) == p.num * q.den <= q.num * p.den
Whole(k) == [num |-> k, den |-> 1]

(***************************************************************************)
(* C11: rotationToSliderValue(angle, 0, 100) is periodic with period 360:  *)
(* for every angle a, including a below -180, the value returned for a     *)
(* equals the value for a + 360.                                           *)
(***************************************************************************)
C11_Periodic360 ==
  (call.fn = "rotationToSliderValue" /\ MinOf(call.args) = 0
     /\ MaxOf(call.args) = 100)
    => QuotEq(result, rotationToSliderValue(call.args[1] + 360, Given(0), Given(100)))

\* The part of C11 the source satisfies: angles from -180 upwards.
C11_PeriodicFromMinus180 ==
  (call.fn = "rotationToSliderValue" /\ MinOf(call.args) = 0
     /\ MaxOf(call.args) = 100 /\ call.args[1] >= -180)
    => QuotEq(result, rotationToSliderValue(call.args[1] + 360, Given(0), Given(100)))

\* The failing input: -270 degrees gives -25, while 90 degrees gives 75.
C11_Witness ==
  /\ call.fn = "rotationToSliderValue"
  /\ call.args = << -270, Undefined, Undefined >>
  /\ QuotEq(result, Whole(-25))
  /\ QuotEq(rotationToSliderValue(90, Undefined, Undefined), Whole(75))

(***************************************************************************)
(* C12: for an angle in [-180, 180] and min <= max the value lies in       *)
(* [min, max]; on [-180, 180) it is min + (angle + 180) / 360 * (max -     *)
(* min), linear and increasing in the angle; -180 and 180 both map to min, *)
(* and max is never reached unless the range is empty.                     *)
(***************************************************************************)
C12_SliderRangeLinearWrap ==
  (call.fn = "rotationToSliderValue" /\ call.args[1] >= -180
     /\ call.args[1] <= 180 /\ MinOf(call.args) <= MaxOf(call.args))
    => LET angle == call.args[1]
           min == MinOf(call.args)
           max == MaxOf(call.args)
       IN  /\ QuotLeq(Whole(min), result) /\ QuotLeq(result, Whole(max))
           /\ angle < 180
                => QuotEq(result, [num |-> 360 * min + (angle + 180) * (max - min),
                                   den |-> 360])
           /\ \A other \in SliderAngles :
                (-180 <= other /\ other < angle /\ angle < 180 /\ min < max)
                  => ~QuotLeq(result, rotationToSliderValue(other, call.args[2], call.args[3]))
           /\ angle \in {-180, 180} => QuotEq(result, Whole(min))
           /\ min < max => ~QuotEq(result, Whole(max))

C12_Witness ==
  /\ call.fn = "rotationToSliderValue"
  /\ call.args = << 180, Given(0), Given(360) >>
  /\ QuotEq(result, Whole(0))

(***************************************************************************)
(* C13: normalizeToScreen({x, y}, width, height) returns exactly           *)
(* {x * width, y * height}, (0.5, 0.5) on a 1280 x 720 canvas gives        *)
(* (640, 360), and the call leaves the point it was given as it was.       *)
(***************************************************************************)
C13_NormalizeToScreenExact ==
  [][call'.fn = "normalizeToScreen"
       => LET point == landmarks[call'.args[1]]
              width == call'.args[2]
              height == call'.args[3]
          IN  /\ result' = [x |-> point.x * width, y |-> point.y * height]
              /\ (point.x = Unit \div 2 /\ point.y = Unit \div 2
                    /\ width = 1280 /\ height = 720)
                   => result' = [x |-> 640 * Unit, y |-> 360 * Unit]
              /\ landmarks' = landmarks]_vars

C13_Witness ==
  /\ call.fn = "normalizeToScreen"
  /\ call.args = << INDEX_FINGER_TIP, 1280, 720 >>
  /\ landmarks[INDEX_FINGER_TIP] = G(50, 50, 0)
  /\ result = [x |-> 640 * Unit, y |-> 360 * Unit]

(***************************************************************************)
(* The geometry primitives called directly, on pairs of fingertips of the  *)
(* pinch skeletons (which differ in depth as well as in the plane).        *)
(***************************************************************************)
CallDistance ==
  \E a \in TipLandmarks, b \in TipLandmarks :
    Returns("distance", << a, b >>, distance(landmarks[a], landmarks[b]))

CallDistance2D ==
  \E a \in TipLandmarks, b \in TipLandmarks :
    Returns("distance2D", << a, b >>, distance2D(landmarks[a], landmarks[b]))

NextDistance == CallDistance \/ CallDistance2D \/ Consume

SpecDistance == InitPinch /\ [][NextDistance]_vars

\* r <= t for two square roots.
SurdLeq(r, t) == r.sq <= t.sq

(***************************************************************************)
(* C14: for every pair of landmarks a and b, distance(a, b) >=             *)
(* distance2D(a, b), both are non-negative (the square root of a           *)
(* non-negative number), and the two are equal when a.z = b.z.             *)
(***************************************************************************)
C14_Distance3DAtLeast2D ==
  LET a == landmarks[call.args[1]]
      b == landmarks[call.args[2]]
  IN  /\ call.fn = "distance"
           => /\ result.sq >= 0
              /\ SurdLeq(distance2D(a, b), result)
              /\ a.z = b.z => result = distance2D(a, b)
              /\ a.z # b.z => ~SurdLeq(result, distance2D(a, b))
      /\ call.fn = "distance2D"
           => /\ result.sq >= 0
              /\ SurdLeq(result, distance(a, b))
              /\ a.z = b.z => result = distance(a, b)
              /\ result.sq = SqDist2(a, b)

\* Two fingertips at different depths: the 3D distance is strictly larger.
C14_Witness ==
  /\ call.fn = "distance"
  /\ landmarks[call.args[1]].z # landmarks[call.args[2]].z
  /\ landmarks[call.args[1]].x # landmarks[call.args[2]].x
  /\ result.sq > distance2D(landmarks[call.args[1]], landmarks[call.args[2]]).sq
  /\ distance2D(landmarks[call.args[1]], landmarks[call.args[2]]).sq > 0

(***************************************************************************)
(* One frame with two hands, as the components process it: analyzeGesture  *)
(* on each hand and the two-hand predicate on both, in any order and any   *)
(* number of times (up to FrameCallsMax calls of analyzeGesture).  The     *)
(* hands are an open hand, a fist, a hand with every finger stretched and  *)
(* tilted in depth, and two hands shifted sideways; both hands of a frame  *)
(* may be the same skeleton.                                               *)
(***************************************************************************)
FrameCallsMax == 3

FrameHands ==
  { BaseHand, FingerSkeleton(0, 0, 0, 0, 0, 0), FingerSkeleton(2, 2, 2, 2, 2, 1),
    RightHand(1, 0, 0, 0, 0), RightHand(5, 1, 0, 1, 0) }

HandOf(hand) == IF hand = 1 THEN landmarks ELSE otherLandmarks

\* `lm` moved so that its wrist is at the origin.
Recentred(lm) ==
  [i \in HandLandmark |->
     Landmark(lm[i].x - lm[WRIST].x, lm[i].y - lm[WRIST].y, lm[i].z - lm[WRIST].z)]

\* Variant: analyzeGesture re-centring the array it was given, in place.
CallAnalyzeGestureOfHand_inPlace ==
  \E hand \in {1, 2} :
    /\ call = NoCall
    /\ Len(returned) < FrameCallsMax
    /\ call' = [fn |-> "analyzeGesture", args |-> << hand >>]
    /\ result' = analyzeGesture(HandOf(hand))
    /\ returned' = Append(returned, [hand |-> hand, gesture |-> result'])
    /\ landmarks' = IF hand = 1 THEN Recentred(landmarks) ELSE landmarks
    /\ otherLandmarks' = IF hand = 2 THEN Recentred(otherLandmarks) ELSE otherLandmarks
    /\ UNCHANGED trackerVars

\* analyzeGesture(landmarks) for one hand of the frame: it reads the array
\* and builds a new object from it.
CallAnalyzeGestureOfHand ==
  \E hand \in {1, 2} :
    /\ call = NoCall
    /\ Len(returned) < FrameCallsMax
    /\ call' = [fn |-> "analyzeGesture", args |-> << hand >>]
    /\ result' = analyzeGesture(HandOf(hand))
    /\ returned' = Append(returned, [hand |-> hand, gesture |-> result'])
    /\ UNCHANGED << frameVars, trackerVars >>

InitFrame ==
  /\ landmarks \in FrameHands
  /\ otherLandmarks \in FrameHands
  /\ call = NoCall
  /\ result = << >>
  /\ returned = NothingReturned
  /\ TrackerMounted

NextFrame ==
  CallAnalyzeGestureOfHand \/ CallDetectKnucklesTogetherGesture \/ Consume

SpecFrame == InitFrame /\ [][NextFrame]_vars

PoseDepthMax == 1
CurlMax == 2

PalmPose(base, wz, tz, kz, sx, curled) ==
  LET deep(i, dz) == Moved(BaseHand[i], 0, 0, 4 * base + dz)
      tip(i, dz) == Moved(BaseHand[i], sx, 0, 4 * base + dz)
  IN  [i \in HandLandmark |->
         CASE i = WRIST -> deep(i, wz)
           [] i = PINKY_MCP -> deep(i, kz)
           [] i = PINKY_TIP -> tip(i, kz + tz)
           [] i = INDEX_FINGER_TIP ->
                IF curled THEN deep(INDEX_FINGER_PIP, tz) ELSE tip(i, tz)
           [] i \in TipLandmarks -> tip(i, tz)
           [] OTHER -> deep(i, 0)]

PalmPoses ==
  { PalmPose(base, wz, tz, kz, sx, curled) :
      base \in -PoseDepthMax .. PoseDepthMax, wz \in {-3, -2, 0, 5},
      tz \in {0, 7, 8}, kz \in {0, 4, 5}, sx \in {-2, 0, 2}, curled \in BOOLEAN }

CurlPoses ==
  { FingerSkeleton(t, i, m, r, p, depth) :
      t \in {-CurlMax, 0, CurlMax}, i \in {-CurlMax, 0, CurlMax},
      m \in {-CurlMax, 0, CurlMax}, r \in {-CurlMax, 0, CurlMax},
      p \in {-CurlMax, 0, CurlMax}, depth \in 0 .. 1 }

GestureSkeletons == PalmPoses \cup CurlPoses \cup RotationSkeletons

CallCalculatePalmCenter ==
  Returns("calculatePalmCenter", << >>, calculatePalmCenter(landmarks))

CallCalculateHandSize ==
  Returns("calculateHandSize", << >>, calculateHandSize(landmarks))

InitGesture ==
  /\ landmarks \in GestureSkeletons
  /\ otherLandmarks = BaseHand
  /\ call = NoCall
  /\ result = << >>
  /\ returned = NothingReturned
  /\ TrackerMounted

NextGesture ==
  \/ CallAnalyzeGesture
  \/ CallCalculateHandRotation
  \/ CallCalculatePalmCenter
  \/ CallCalculateHandSize
  \/ Consume

SpecGesture == InitGesture /\ [][NextGesture]_vars

GestureStateFields ==
  {"pinches", "rotation", "palmCenter", "palmArea", "isOpen", "isFist",
   "isPalmFacingCamera", "handSize", "fingerStates"}

(***************************************************************************)
(* C16: for every well-formed skeleton analyzeGesture returns a complete   *)
(* GestureState, each field equal to what the function of that name        *)
(* returns on the same skeleton: pinches = detectAllPinches, rotation =    *)
(* calculateHandRotation, palmCenter = calculatePalmCenter, palmArea =     *)
(* calculatePalmArea, handSize = calculateHandSize, fingerStates =         *)
(* detectFingerStates, isPalmFacingCamera = isPalmFacingCamera.            *)
(***************************************************************************)
C16_AnalyzeGestureAggregates ==
  call.fn = "analyzeGesture" =>
    /\ DOMAIN result = GestureStateFields
    /\ result.pinches = detectAllPinches(landmarks)
    /\ result.rotation = calculateHandRotation(landmarks)
    /\ result.palmCenter = calculatePalmCenter(landmarks)
    /\ result.palmArea = calculatePalmArea(landmarks)
    /\ result.handSize = calculateHandSize(landmarks)
    /\ result.fingerStates = detectFingerStates(landmarks)
    /\ result.isPalmFacingCamera = isPalmFacingCamera(landmarks)

\* An open hand that does not face the camera.
C16_Witness ==
  /\ call.fn = "analyzeGesture"
  /\ result.isOpen
  /\ ~result.isPalmFacingCamera
  /\ ~isPalmFacingCamera(landmarks)
  /\ result.handSize = calculateHandSize(landmarks)

\* The fingers: tip, the joint detectFingerStates compares it with, knuckle.
FingerJoints ==
  { << THUMB_TIP, THUMB_IP, THUMB_MCP >>,
    << INDEX_FINGER_TIP, INDEX_FINGER_PIP, INDEX_FINGER_MCP >>,
    << MIDDLE_FINGER_TIP, MIDDLE_FINGER_PIP, MIDDLE_FINGER_MCP >>,
    << RING_FINGER_TIP, RING_FINGER_DIP, RING_FINGER_MCP >>,
    << PINKY_TIP, PINKY_PIP, PINKY_MCP >> }

\* A flat open palm facing the camera, as the scenario describes it.
FlatOpenPalm(lm) ==
  /\ \A f \in FingerJoints :
       /\ 100 * SqDist2(lm[f[1]], lm[WRIST]) > 121 * SqDist2(lm[f[2]], lm[WRIST])
       /\ lm[f[1]].z = lm[f[3]].z
  /\ lm[WRIST].z = lm[MIDDLE_FINGER_MCP].z + (5 * Unit) \div 100
  /\ lm[INDEX_FINGER_MCP].z = lm[PINKY_MCP].z

\* A closed fist: every fingertip at or inside its reference joint's 2D
\* distance from the wrist.
ClosedFist(lm) ==
  \A f \in FingerJoints :
    SqDist2(lm[f[1]], lm[WRIST]) <= SqDist2(lm[f[2]], lm[WRIST])

(***************************************************************************)
(* C17: for a flat open palm facing the camera (every fingertip farther    *)
(* than 1.1 times its reference joint from the wrist in 2D, every          *)
(* fingertip z equal to its knuckle z, wrist z = middle-MCP z + 0.05,      *)
(* index-MCP z = pinky-MCP z) analyzeGesture yields isOpen = true,         *)
(* isFist = false and isPalmFacingCamera = true.                           *)
(***************************************************************************)
C17_FlatOpenPalmScenario ==
  (call.fn = "analyzeGesture" /\ FlatOpenPalm(landmarks))
    => /\ result.isOpen = TRUE
       /\ result.isFist = FALSE
       /\ result.isPalmFacingCamera = TRUE

C17_Witness ==
  /\ call.fn = "analyzeGesture"
  /\ FlatOpenPalm(landmarks)
  /\ landmarks[MIDDLE_FINGER_MCP].z # 0
  /\ landmarks[MIDDLE_FINGER_TIP].x # BaseHand[MIDDLE_FINGER_TIP].x
  /\ result.isOpen /\ result.isPalmFacingCamera

(***************************************************************************)
(* C18: for a closed fist, every fingertip at or inside its reference      *)
(* joint's 2D distance from the wrist (IP for the thumb, DIP for the ring  *)
(* finger, PIP for the others), analyzeGesture yields all five             *)
(* fingerStates false, isFist = true and isOpen = false.                   *)
(***************************************************************************)
C18_ClosedFistScenario ==
  (call.fn = "analyzeGesture" /\ ClosedFist(landmarks))
    => /\ \A f \in {"thumb", "index", "middle", "ring", "pinky"} :
            result.fingerStates[f] = FALSE
       /\ result.isFist = TRUE
       /\ result.isOpen = FALSE

\* A fist with the thumb tip exactly at the distance of its IP joint and the
\* ring tip inside the distance of its DIP joint but outside that of its PIP.
C18_Witness ==
  /\ call.fn = "analyzeGesture"
  /\ ClosedFist(landmarks)
  /\ SqDist2(landmarks[THUMB_TIP], landmarks[WRIST])
       = SqDist2(landmarks[THUMB_IP], landmarks[WRIST])
  /\ SqDist2(landmarks[RING_FINGER_TIP], landmarks[WRIST])
       < SqDist2(landmarks[RING_FINGER_DIP], landmarks[WRIST])
  /\ SqDist2(landmarks[RING_FINGER_TIP], landmarks[WRIST])
       > SqDist2(landmarks[RING_FINGER_PIP], landmarks[WRIST])
  /\ result.isFist

(***************************************************************************)
(* C19: roll follows formulation A on the palm center calculatePalmCenter  *)
(* returns: roll is the angle in degrees of                                *)
(* atan2(middleTip.y - c.y, middleTip.x - c.x), c the 2D mean of wrist,    *)
(* index MCP and pinky MCP, so the roll and the palmCenter of one          *)
(* GestureState agree.                                                     *)
(***************************************************************************)
C19_RollFromPalmCenter ==
  LET wrist == landmarks[WRIST]
      indexMCP == landmarks[INDEX_FINGER_MCP]
      pinkyMCP == landmarks[PINKY_MCP]
      middleTip == landmarks[MIDDLE_FINGER_TIP]
      IsMean(c) == /\ 3 * c.x = wrist.x + indexMCP.x + pinkyMCP.x
                   /\ 3 * c.y = wrist.y + indexMCP.y + pinkyMCP.y
      RollAbout(c) == DegreesOf(middleTip.y - c.y, middleTip.x - c.x)
  IN  /\ call.fn = "analyzeGesture"
           => /\ IsMean(result.palmCenter)
              /\ result.rotation.roll = RollAbout(result.palmCenter)
      /\ call.fn = "calculatePalmCenter" => IsMean(result)
      /\ call.fn = "calculateHandRotation"
           => result.roll = RollAbout(calculatePalmCenter(landmarks))

\* A GestureState whose roll would be another angle about the wrist.
C19_Witness ==
  /\ call.fn = "analyzeGesture"
  /\ result.rotation.roll = Between(-135, -90)
  /\ DegreesOf(landmarks[MIDDLE_FINGER_TIP].y - landmarks[WRIST].y,
               landmarks[MIDDLE_FINGER_TIP].x - landmarks[WRIST].x)
       # result.rotation.roll

(***************************************************************************)
(* The hold-based HandTracker (src/unnamed/part_004): the knuckles-        *)
(* together mode switch of the hands.onResults callback, and the cooldown  *)
(* timer it starts.  A frame arrives FrameGaps ms after the previous       *)
(* event (two short gaps make up the hold time, a short and a long one the *)
(* cooldown); its results carry no hand data at all, or a list of 0, 1 or  *)
(* 2 hands with their handedness labels.  The first hand of a two-hand     *)
(* frame is the open hand, the second is that hand shifted sideways: by    *)
(* 0.04 (knuckles together) or by 0.2 (apart).                             *)
(***************************************************************************)
KNUCKLES_COOLDOWN_MS == 2800
KNUCKLES_HOLD_MS == 550

ClockMax == 4000
FrameGaps == {275, 2250}

HandednessLabels == {"Left", "Right"}

\* results.multiHandedness: absent, or the labels of the detected hands.
HandednessInputs ==
  {Undefined, Given(<< >>), Given(<< "Left" >>), Given(<< "Right" >>)}
    \cup { Given(<< a, b >>) : a \in HandednessLabels, b \in HandednessLabels }

SecondHands == { RightHand(1, 0, 0, 0, 0), RightHand(5, 0, 0, 0, 0) }

\* The for loop over the two hands: the last hand labelled 'Left' (0 if
\* none), and the last hand with any other label (0 if none).
LeftHandIndex(labels) ==
  IF labels[2] = "Left" THEN 2 ELSE IF labels[1] = "Left" THEN 1 ELSE 0
RightHandIndex(labels) ==
  IF labels[2] # "Left" THEN 2 ELSE IF labels[1] # "Left" THEN 1 ELSE 0

\* results.multiHandLandmarks.length === 2 with leftHandLandmarks and
\* rightHandLandmarks both found.
BothHandsFound(handedness) ==
  /\ handedness # Undefined
  /\ Len(handedness[1]) = 2
  /\ LeftHandIndex(handedness[1]) # 0
  /\ RightHandIndex(handedness[1]) # 0

\* isKnucklesTogether of a frame with both hands found.
KnucklesTogether(handedness, hands) ==
  detectKnucklesTogetherGesture(hands[LeftHandIndex(handedness[1])],
                                hands[RightHandIndex(handedness[1])])

\* if (isKnucklesTogether && heldLongEnough && !knucklesCooldownRef.current)
MayToggle(isKnucklesTogether, heldLongEnough) ==
  isKnucklesTogether /\ heldLongEnough /\ ~knucklesCooldownRef

\* Variant: the hold timer left running by a toggle.
sinceAfterToggle_kept(since) == since

\* knucklesTogetherSinceRef.current = null;  (after a toggle)
sinceAfterToggle(since) == << >>

\* hands.onResults, the knuckles-together part, for one frame.
OnResults ==
  \E gap \in FrameGaps, handedness \in HandednessInputs,
     second \in SecondHands \cup {otherLandmarks} :
    LET now == clock + gap
        hands == << landmarks, second >>
        found == BothHandsFound(handedness)
        isKnucklesTogether == found /\ KnucklesTogether(handedness, hands)
        started == IF isKnucklesTogether /\ ~prevKnucklesTogetherRef
                   THEN << now >> ELSE knucklesTogetherSinceRef
        since == IF ~isKnucklesTogether THEN << >> ELSE started
        holdElapsed == IF since # << >> THEN now - since[1] ELSE 0
        heldLongEnough == holdElapsed >= KNUCKLES_HOLD_MS
        toggle == found /\ MayToggle(isKnucklesTogether, heldLongEnough)
    IN  /\ now <= ClockMax
        /\ \A due \in timers : due >= now
        /\ IF handedness # Undefined /\ Len(handedness[1]) = 2
           THEN second \in SecondHands ELSE second = otherLandmarks
        /\ clock' = now
        /\ multiHandedness' = handedness
        /\ otherLandmarks' = second
        /\ IF found
           THEN /\ prevKnucklesTogetherRef' = isKnucklesTogether
                /\ knucklesTogetherSinceRef' =
                     IF toggle THEN sinceAfterToggle(since) ELSE since
           ELSE IF handedness # Undefined /\ Len(handedness[1]) # 2
           THEN /\ prevKnucklesTogetherRef' = FALSE
                /\ knucklesTogetherSinceRef' = << >>
           ELSE UNCHANGED << prevKnucklesTogetherRef, knucklesTogetherSinceRef >>
        /\ IF toggle
           THEN /\ interactionModeRef' =
                     IF interactionModeRef = "drawing" THEN "physics" ELSE "drawing"
                /\ knucklesCooldownRef' = TRUE
                /\ timers' = timers \cup {now + KNUCKLES_COOLDOWN_MS}
                /\ lastToggleAt' = << now >>
           ELSE UNCHANGED << interactionModeRef, knucklesCooldownRef, timers,
                             lastToggleAt >>
        /\ heldSince' = IF isKnucklesTogether
                        THEN (IF heldSince = << >> THEN << now >> ELSE heldSince)
                        ELSE << >>
        /\ UNCHANGED << landmarks, call, result, returned, componentVars >>

\* The setTimeout callback: it runs at its due time, before any frame that
\* arrives later (a frame arriving in the same millisecond may run first).
CooldownTimerFires ==
  \E due \in timers :
    /\ clock' = IF clock > due THEN clock ELSE due
    /\ knucklesCooldownRef' = FALSE
    /\ timers' = timers \ {due}
    /\ UNCHANGED << frameVars, call, result, returned, multiHandedness,
                    interactionModeRef, prevKnucklesTogetherRef,
                    knucklesTogetherSinceRef, heldSince, lastToggleAt,
                    componentVars >>

InitTracker ==
  /\ landmarks = BaseHand
  /\ otherLandmarks = BaseHand
  /\ call = NoCall
  /\ result = << >>
  /\ returned = NothingReturned
  /\ TrackerMounted

NextTracker == OnResults \/ CooldownTimerFires

SpecTracker == InitTracker /\ [][NextTracker]_vars

\* One Left and one Right hand, in either order.
OneLeftOneRight == {Given(<< "Left", "Right" >>), Given(<< "Right", "Left" >>)}

(***************************************************************************)
(* C20: a frame toggles the interaction mode only if it has exactly two    *)
(* hands, one Left and one Right, detectKnucklesTogetherGesture is true on *)
(* it, the gesture has been true on every frame for at least               *)
(* KNUCKLES_HOLD_MS since its rising edge, and the cooldown flag is clear; *)
(* the toggle sets the flag, only the timer KNUCKLES_COOLDOWN_MS later     *)
(* clears it, and two toggles are at least KNUCKLES_COOLDOWN_MS apart.     *)
(***************************************************************************)
C20_ToggleOnlyAfterContinuousHold ==
  [][/\ interactionModeRef' # interactionModeRef
          => /\ multiHandedness' \in OneLeftOneRight
             /\ detectKnucklesTogetherGesture(landmarks', otherLandmarks')
             /\ heldSince' # << >>
             /\ clock' - heldSince'[1] >= KNUCKLES_HOLD_MS
             /\ ~knucklesCooldownRef
             /\ knucklesCooldownRef'
             /\ lastToggleAt # << >>
                  => clock' - lastToggleAt[1] >= KNUCKLES_COOLDOWN_MS
     /\ (knucklesCooldownRef /\ ~knucklesCooldownRef')
          => /\ timers' # timers
             /\ clock' >= lastToggleAt[1] + KNUCKLES_COOLDOWN_MS]_vars

\* The failing run: the gesture seen at 275 ms, a frame without hand data at
\* 550 ms, the gesture seen again at 825 ms, and that frame toggles the mode
\* although the gesture has been seen for 0 ms without a break.
C20_Witness ==
  /\ clock = 825
  /\ lastToggleAt = << 825 >>
  /\ heldSince = << 825 >>
  /\ interactionModeRef = "physics"
  /\ knucklesCooldownRef


\* The rest of C20, which the source satisfies: the frame conditions, the
\* cooldown flag and timer, and the distance between two toggles.
C20_ToggleGuardAndCooldown ==
  [][/\ interactionModeRef' # interactionModeRef
          => /\ multiHandedness' \in OneLeftOneRight
             /\ detectKnucklesTogetherGesture(landmarks', otherLandmarks')
             /\ ~knucklesCooldownRef
             /\ knucklesCooldownRef'
             /\ lastToggleAt # << >>
                  => clock' - lastToggleAt[1] >= KNUCKLES_COOLDOWN_MS
     /\ (knucklesCooldownRef /\ ~knucklesCooldownRef')
          => /\ timers' # timers
             /\ clock' >= lastToggleAt[1] + KNUCKLES_COOLDOWN_MS]_vars

\* A second toggle, after the cooldown of the first has run out.
C20_SecondToggle ==
  /\ lastToggleAt # << >>
  /\ lastToggleAt[1] >= KNUCKLES_HOLD_MS + KNUCKLES_COOLDOWN_MS
  /\ interactionModeRef = "drawing"
  /\ knucklesCooldownRef


KNUCKLES_COOLDOWN_MS_ONSET == 1000
WAKANDA_COOLDOWN_MS == 1000

OnsetGaps == {250, 1000}
OnsetTrackers == {"part_003", "part_006"}

\* detectWakandaForeverGesture(leftHandLandmarks, rightHandLandmarks): a pure
\* boolean of the two skeletons; a frame carries its value.
detectWakandaForeverGestureResults == BOOLEAN

\* The onset test of both revisions: the gesture shows on this frame, did
\* not on the last frame that recorded it, and the cooldown flag is clear.
OnsetToggle(isPose, prevRef, cooldownRef) == isPose /\ ~prevRef /\ ~cooldownRef

ToggledMode(mode) == IF mode = "drawing" THEN "physics" ELSE "drawing"

\* hands.onResults of part_003 for one frame.
KnucklesOnsetOnResults ==
  \E gap \in OnsetGaps, handedness \in HandednessInputs,
     second \in SecondHands \cup {otherLandmarks} :
    LET now == clock + gap
        hands == << landmarks, second >>
        found == BothHandsFound(handedness)
        isKnucklesTogether == found /\ KnucklesTogether(handedness, hands)
        toggle == found /\ OnsetToggle(isKnucklesTogether, prevKnucklesTogetherRef,
                                       knucklesCooldownRef)
    IN  /\ tracker = "part_003"
        /\ now <= ClockMax
        /\ \A due \in timers : due >= now
        /\ IF handedness # Undefined /\ Len(handedness[1]) = 2
           THEN second \in SecondHands ELSE second = otherLandmarks
        /\ clock' = now
        /\ multiHandedness' = handedness
        /\ otherLandmarks' = second
        /\ IF found
           THEN prevKnucklesTogetherRef' = isKnucklesTogether
           ELSE IF handedness # Undefined /\ Len(handedness[1]) # 2
           THEN prevKnucklesTogetherRef' = FALSE
           ELSE UNCHANGED prevKnucklesTogetherRef
        /\ IF toggle
           THEN /\ interactionModeRef' = ToggledMode(interactionModeRef)
                /\ knucklesCooldownRef' = TRUE
                /\ timers' = timers \cup {now + KNUCKLES_COOLDOWN_MS_ONSET}
                /\ lastToggleAt' = << now >>
           ELSE UNCHANGED << interactionModeRef, knucklesCooldownRef, timers,
                             lastToggleAt >>
        /\ heldSince' = IF isKnucklesTogether
                        THEN (IF heldSince = << >> THEN << now >> ELSE heldSince)
                        ELSE << >>
        /\ UNCHANGED << landmarks, call, result, returned, knucklesTogetherSinceRef,
                        componentVars >>

\* hands.onResults of part_006 for one frame.
WakandaOnResults ==
  \E gap \in OnsetGaps, handedness \in HandednessInputs,
     pose \in detectWakandaForeverGestureResults :
    LET now == clock + gap
        found == BothHandsFound(handedness)
        isWakandaPose == found /\ pose
        toggle == found /\ OnsetToggle(isWakandaPose, prevWakandaStateRef,
                                       wakandaForeverCooldownRef)
    IN  /\ tracker = "part_006"
        /\ now <= ClockMax
        /\ \A due \in timers : due >= now
        /\ found \/ ~pose
        /\ clock' = now
        /\ multiHandedness' = handedness
        /\ IF found
           THEN prevWakandaStateRef' = isWakandaPose
           ELSE IF handedness # Undefined /\ Len(handedness[1]) # 2
           THEN prevWakandaStateRef' = FALSE
           ELSE UNCHANGED prevWakandaStateRef
        /\ IF toggle
           THEN /\ interactionModeRef' = ToggledMode(interactionModeRef)
                /\ wakandaForeverCooldownRef' = TRUE
                /\ timers' = timers \cup {now + WAKANDA_COOLDOWN_MS}
                /\ lastToggleAt' = << now >>
           ELSE UNCHANGED << interactionModeRef, wakandaForeverCooldownRef, timers,
                             lastToggleAt >>
        /\ heldSince' = IF isWakandaPose
                        THEN (IF heldSince = << >> THEN << now >> ELSE heldSince)
                        ELSE << >>
        /\ UNCHANGED << frameVars, call, result, returned, knucklesCooldownRef,
                        prevKnucklesTogetherRef, knucklesTogetherSinceRef, tracker,
                        styleVars, restVars >>

\* The cooldown setTimeout callback of the mounted revision.
OnsetCooldownTimerFires ==
  \E due \in timers :
    /\ tracker \in OnsetTrackers
    /\ clock' = IF clock > due THEN clock ELSE due
    /\ IF tracker = "part_003"
       THEN knucklesCooldownRef' = FALSE /\ UNCHANGED wakandaForeverCooldownRef
       ELSE wakandaForeverCooldownRef' = FALSE /\ UNCHANGED knucklesCooldownRef
    /\ timers' = timers \ {due}
    /\ UNCHANGED << frameVars, call, result, returned, multiHandedness,
                    interactionModeRef, prevKnucklesTogetherRef,
                    knucklesTogetherSinceRef, heldSince, lastToggleAt,
                    tracker, prevWakandaStateRef, styleVars, restVars >>

InitOnset ==
  /\ landmarks = BaseHand
  /\ otherLandmarks = BaseHand
  /\ call = NoCall
  /\ result = << >>
  /\ returned = NothingReturned
  /\ tracker \in OnsetTrackers
  /\ RefsMounted

NextOnset == KnucklesOnsetOnResults \/ WakandaOnResults \/ OnsetCooldownTimerFires

SpecOnset == InitOnset /\ [][NextOnset]_vars

\* The cooldown flag of the mounted revision.
OnsetCooldown ==
  IF tracker = "part_003" THEN knucklesCooldownRef ELSE wakandaForeverCooldownRef

\* C22 (as stated): the mode toggles on a frame exactly when the two-hand
\* gesture shows on that frame, did not show on the previous frame (it was
\* false there, or that frame did not have two hands), and the cooldown
\* flag is clear.
C22_ToggleExactlyOnRisingEdge ==
  [][(interactionModeRef' # interactionModeRef)
       <=> (heldSince' # << >> /\ heldSince = << >> /\ ~OnsetCooldown)]_vars

\* C22: a frame without hand data arrived while the gesture had been shown
\* and the cooldown had expired; the gesture shows again on this frame and
\* the mode has not toggled.
C22_Witness ==
  /\ tracker \in OnsetTrackers
  /\ lastToggleAt # << >> /\ heldSince # << >>
  /\ heldSince[1] = clock
  /\ heldSince[1] > lastToggleAt[1] + WAKANDA_COOLDOWN_MS
  /\ ~OnsetCooldown /\ timers = {}
  /\ interactionModeRef = "physics"

\* C22: the mode changes only on a frame where the gesture shows, with the
\* cooldown flag clear before the frame and set after it; while the gesture
\* keeps showing on consecutive frames the mode does not change again, also
\* after the cooldown expired.
C22_ToggleOnlyOnOnsetOutsideCooldown ==
  [][/\ (interactionModeRef' # interactionModeRef)
          => (heldSince' # << >> /\ ~OnsetCooldown /\ OnsetCooldown'
                /\ lastToggleAt' = << clock' >>)
     /\ (heldSince # << >> /\ heldSince' = heldSince)
          => interactionModeRef' = interactionModeRef]_vars

\* A gesture held from before the cooldown's end to after it, untoggled.
C22_HeldPastCooldown ==
  /\ tracker \in OnsetTrackers
  /\ lastToggleAt # << >> /\ heldSince # << >>
  /\ heldSince[1] < lastToggleAt[1] + WAKANDA_COOLDOWN_MS
  /\ heldSince[1] > lastToggleAt[1]
  /\ clock > lastToggleAt[1] + WAKANDA_COOLDOWN_MS
  /\ ~OnsetCooldown
  /\ interactionModeRef = "physics"


\* ---------------------------------------------------------------------
\* Left-hand rotation drives the drawing style (part_004), with hysteresis.
\* ---------------------------------------------------------------------

ROTATION_BOX_MAX_DEG == 45
ROTATION_FREEHAND_MIN_DEG == 55

\* tan(deg) * TanScale for the two thresholds, as the whole numbers below
\* and above it (tan 45 = 1 exactly; tan 55 = 1.4281480067...).
TanScale == 1000000
TanBelow(deg) == IF deg = 45 THEN 1000000 ELSE 1428148
TanAbove(deg) == IF deg = 45 THEN 1000000 ELSE 1428149

\* Math.abs(getLeftHandRotationDeg(landmarks)) < deg and > deg, for deg < 90:
\* the angle is atan2(dx, -dy) of the wrist-to-middle-MCP offset.  With a
\* zero offset dx is +0 and -dy is -0, and atan2(+0, -0) is 180 degrees.
\* Exact for offsets whose ratio has a denominator below 600 cells.
getLeftHandRotationOffset(lm) ==
  << lm[MIDDLE_FINGER_MCP].x - lm[WRIST].x, lm[MIDDLE_FINGER_MCP].y - lm[WRIST].y >>

absAngleLess(offset, deg) ==
  /\ 0 - offset[2] > 0
  /\ Abs(offset[1]) * TanScale < TanAbove(deg) * (0 - offset[2])
  /\ ~(deg # 45 /\ Abs(offset[1]) * TanScale > TanBelow(deg) * (0 - offset[2]))

absAngleGreater(offset, deg) ==
  \/ 0 - offset[2] <= 0
  \/ /\ Abs(offset[1]) * TanScale > TanBelow(deg) * (0 - offset[2])
     /\ ~(deg # 45 /\ Abs(offset[1]) * TanScale < TanAbove(deg) * (0 - offset[2]))

nextFreehand_noBand(current, offset) ==
  IF absAngleLess(offset, ROTATION_BOX_MAX_DEG) THEN FALSE ELSE TRUE

\* let nextFreehand of the left-hand block.
nextFreehand(current, offset) ==
  IF absAngleLess(offset, ROTATION_BOX_MAX_DEG) THEN FALSE
  ELSE IF absAngleGreater(offset, ROTATION_FREEHAND_MIN_DEG) THEN TRUE
  ELSE current

StyleFramesMax == 3

\* Wrist-to-middle-MCP offsets of the left hands shown, in cells (x, y):
\* 0, 42, 45, 52.4, 54.5, 55.008, 56.3, 90 and 180 degrees and mirrored.
StyleOffsets ==
  { << 0, -10 >>, << -9, -10 >>, << 10, -10 >>, << -10, -10 >>, << 13, -10 >>,
    << 14, -10 >>, << 10, -7 >>, << -15, -10 >>, << 10, 0 >>, << 0, 0 >> }

StyleSkeletons ==
  { With(BaseHand, MIDDLE_FINGER_MCP :>
           Moved(BaseHand[WRIST], o[1], o[2], 0)) : o \in StyleOffsets }

\* The left-hand block of hands.onResults for one left hand.
LeftHandRotation ==
  \E lm \in StyleSkeletons :
    LET offset == getLeftHandRotationOffset(lm)
        next == nextFreehand(leftHandRotationFreehandRef, offset)
        changed == next # (drawingStyleRef = "freehand")
        style == IF next THEN "freehand" ELSE "box"
    IN  /\ Len(angleHistory) < StyleFramesMax
        /\ landmarks' = lm
        /\ IF interactionModeRef = "drawing"
           THEN /\ drawingStyleRef' = IF changed THEN style ELSE drawingStyleRef
                /\ drawingStyle' = IF changed THEN style ELSE drawingStyle
                /\ styleEffectPending' = (changed \/ styleEffectPending)
                /\ leftHandRotationFreehandRef' = next
                /\ angleHistory' = Append(angleHistory, offset)
           ELSE UNCHANGED styleVars
        /\ UNCHANGED << otherLandmarks, call, result, returned, multiHandedness,
                        interactionModeRef, knucklesCooldownRef,
                        prevKnucklesTogetherRef, knucklesTogetherSinceRef, clock,
                        timers, heldSince, lastToggleAt, onsetVars, restVars >>

\* useEffect(() => { drawingStyleRef.current = drawingStyle }, [drawingStyle]).
DrawingStyleEffect ==
  /\ styleEffectPending
  /\ drawingStyleRef' = drawingStyle
  /\ styleEffectPending' = FALSE
  /\ UNCHANGED << frameVars, call, result, returned, multiHandedness,
                  interactionModeRef, knucklesCooldownRef, prevKnucklesTogetherRef,
                  knucklesTogetherSinceRef, clock, timers, heldSince, lastToggleAt,
                  onsetVars, leftHandRotationFreehandRef, drawingStyle, angleHistory,
                  restVars >>

InitStyle ==
  /\ landmarks = BaseHand
  /\ otherLandmarks = BaseHand
  /\ call = NoCall
  /\ result = << >>
  /\ returned = NothingReturned
  /\ TrackerMounted

NextStyle == LeftHandRotation \/ DrawingStyleEffect

SpecStyle == InitStyle /\ [][NextStyle]_vars

\* The angle of an offset against the band, from the squared tangent:
\* "below" under 45 degrees, "above" over 55 degrees, "band" between.
AngleClass(offset) ==
  LET c == (0 - offset[2]) \div Cell
      a == (offset[1] \div Cell) * (offset[1] \div Cell)
  IN  IF c <= 0 THEN "above"
      ELSE IF a < c * c THEN "below"
      ELSE IF a * 1000000 > 2039607 * c * c THEN "above"
      ELSE "band"

\* The class of the last angle outside the band, "none" if there is none.
RECURSIVE LastOutsideBand(_)
LastOutsideBand(history) ==
  IF history = << >> THEN "none"
  ELSE IF AngleClass(history[Len(history)]) # "band"
       THEN AngleClass(history[Len(history)])
       ELSE LastOutsideBand(SubSeq(history, 1, Len(history) - 1))

\* C23: after every left-hand frame handled in drawing mode the style is
\* 'box' if the last angle outside the 45..55 band was under 45 degrees and
\* 'freehand' if it was over 55; a frame with an angle inside the band
\* leaves the style as it was; and drawingStyleRef is 'freehand' exactly
\* when leftHandRotationFreehandRef is true.
C23_StyleHysteresis ==
  [][Len(angleHistory') > Len(angleHistory)
       => /\ LastOutsideBand(angleHistory') = "below" => drawingStyleRef' = "box"
          /\ LastOutsideBand(angleHistory') = "above" => drawingStyleRef' = "freehand"
          /\ AngleClass(angleHistory'[Len(angleHistory')]) = "band"
               => drawingStyleRef' = drawingStyleRef
          /\ (drawingStyleRef' = "freehand") <=> leftHandRotationFreehandRef']_vars

\* C23: a tilt over 55 degrees, then a frame inside the band that keeps
\* 'freehand', then a frame at 45 degrees exactly that still keeps it.
C23_Witness ==
  /\ Len(angleHistory) = 3
  /\ AngleClass(angleHistory[1]) = "above"
  /\ AngleClass(angleHistory[2]) = "band"
  /\ angleHistory[3] = << 10 * Cell, -10 * Cell >>
  /\ drawingStyleRef = "freehand"
  /\ leftHandRotationFreehandRef


\* ---------------------------------------------------------------------
\* The physics scene of HandTracker (part_004): tracked boxes and their
\* health, water and fire particles.  A body is named by the number it was
\* created with; the physics engine is running (engineRef.current is set).
\* ---------------------------------------------------------------------

\* Everything outside the scene.
coreVars ==
  << frameVars, call, result, returned, multiHandedness, interactionModeRef,
     knucklesCooldownRef, prevKnucklesTogetherRef, knucklesTogetherSinceRef,
     clock, timers, heldSince, lastToggleAt, onsetVars, styleVars >>

MAX_BOXES == 20
MIN_BOX_SIZE == 20
FULL_HEALTH == 1

BodiesMax == 26
AgentBodiesMax == 3

\* |end - start| of the rectangles handed to createSolidBox.
BoxSizes == { << 10, 50 >>, << 50, 19 >>, << 20, 20 >>, << 50, 50 >> }

Range(seq) == { seq[i] : i \in DOMAIN seq }

\* boxHealthRef.current.set(box, health) and .delete(box).
MapSet(map, key, value) ==
  [k \in DOMAIN map \cup {key} |-> IF k = key THEN value ELSE map[k]]
MapDelete(map, key) == [k \in DOMAIN map \ {key} |-> map[k]]

\* The FIFO removal at the end of createSolidBox.
boxesAfterPush(boxes) == IF Len(boxes) > MAX_BOXES THEN Tail(boxes) ELSE boxes

CreateSolidBox ==
  \E size \in BoxSizes :
    LET box == bodiesCreated + 1
        pushed == Append(boxesRef, box)
        kept == boxesAfterPush(pushed)
    IN  /\ bodiesCreated < BodiesMax
        /\ IF size[1] < MIN_BOX_SIZE \/ size[2] < MIN_BOX_SIZE
           THEN UNCHANGED << boxesRef, boxHealthRef, bodiesCreated >>
           ELSE /\ bodiesCreated' = box
                /\ boxesRef' = kept
                /\ boxHealthRef' =
                     IF kept # pushed
                     THEN MapDelete(MapSet(boxHealthRef, box, FULL_HEALTH), pushed[1])
                     ELSE MapSet(boxHealthRef, box, FULL_HEALTH)
        /\ UNCHANGED << coreVars, waterParticlesRef, fireParticlesRef,
                        particlesCreated, drawingsRef, drawingStrokesRef,
                        currentStrokeRef, splatVars, laterVars >>

\* applyAgentBodies(bodies) with `count` body specs that name a known method.
ApplyAgentBodies ==
  \E count \in 0 .. AgentBodiesMax :
    LET created == [i \in 1 .. count |-> bodiesCreated + i]
    IN  /\ bodiesCreated + count <= BodiesMax
        /\ bodiesCreated' = bodiesCreated + count
        /\ boxesRef' = boxesRef \o created
        /\ boxHealthRef' =
             [k \in DOMAIN boxHealthRef \cup Range(created) |-> 
                IF k \in Range(created) THEN FULL_HEALTH ELSE boxHealthRef[k]]
        /\ UNCHANGED << coreVars, waterParticlesRef, fireParticlesRef,
                        particlesCreated, drawingsRef, drawingStrokesRef,
                        currentStrokeRef, splatVars, laterVars >>

\* clearAllBoxes: the "Clear all" button.
ClearAllBoxes ==
  /\ drawingsRef' = << >>
  /\ boxesRef' = << >>
  /\ boxHealthRef' = << >>
  /\ waterParticlesRef' = << >>
  /\ fireParticlesRef' = << >>
  /\ drawingStrokesRef' = << >>
  /\ currentStrokeRef' = << >>
  /\ UNCHANGED << coreVars, bodiesCreated, particlesCreated, splatVars,
                  laterVars >>

InitBoxes ==
  /\ landmarks = BaseHand
  /\ otherLandmarks = BaseHand
  /\ call = NoCall
  /\ result = << >>
  /\ returned = NothingReturned
  /\ TrackerMounted

NextBoxes == CreateSolidBox \/ ApplyAgentBodies \/ ClearAllBoxes

SpecBoxes == InitBoxes /\ [][NextBoxes]_vars

\* C24 (as stated): the list of tracked boxes never holds more than
\* MAX_BOXES bodies, and the boxes with a health entry are exactly the
\* tracked ones.
C24_AtMostMaxBoxes ==
  /\ Len(boxesRef) <= MAX_BOXES
  /\ DOMAIN boxHealthRef = Range(boxesRef)

\* C24: applyAgentBodies has pushed bodies onto a full list.
C24_Witness ==
  /\ Len(boxesRef) = MAX_BOXES + AgentBodiesMax
  /\ boxesRef[Len(boxesRef)] = bodiesCreated
  /\ DOMAIN boxHealthRef = Range(boxesRef)

\* C24: every tracked box has a health entry and no other body has one,
\* and the list is in creation order.
C24_HealthEntriesAndFifo ==
  /\ DOMAIN boxHealthRef = Range(boxesRef)
  /\ \A i \in DOMAIN boxesRef, j \in DOMAIN boxesRef :
       i < j => boxesRef[i] < boxesRef[j]

\* C24: a step that drops a box while keeping others drops the oldest one
\* only, from a list that was full.
C24_OldestRemovedFirst ==
  [][(boxesRef' # << >> /\ ~(Range(boxesRef) \subseteq Range(boxesRef')))
       => /\ Range(boxesRef) \ Range(boxesRef') = {boxesRef[1]}
          /\ Len(boxesRef') = Len(boxesRef)
          /\ Len(boxesRef) >= MAX_BOXES]_vars

\* A box evicted by createSolidBox from a list of exactly MAX_BOXES.
C24_Evicted ==
  /\ Len(boxesRef) = MAX_BOXES
  /\ boxesRef[1] = 2
  /\ bodiesCreated = MAX_BOXES + 1


\* ---------------------------------------------------------------------
\* Water and fire particles (part_004).  A particle is named by the number
\* it was created with.
\* ---------------------------------------------------------------------

MAX_WATER_PARTICLES == 500
WATER_PARTICLE_SPACING == 20
MAX_FIRE_PARTICLES == 320
FIRE_PARTICLE_SPACING == 24
MIN_PARTICLE_AREA_SIZE == 30

ParticlesMax == 1600

\* |end - start| of the rectangles handed to createWater and createFire.
ParticleAreaSizes ==
  { << 29, 400 >>, << 240, 240 >>, << 400, 500 >>, << 620, 520 >> }

mathMax(a, b) == IF a >= b THEN a ELSE b
mathMin(a, b) == IF a <= b THEN a ELSE b

\* cols * rows, each Math.max(2, Math.floor(size / spacing)).
newParticleCountOf(size, spacing) ==
  mathMax(2, size[1] \div spacing) * mathMax(2, size[2] \div spacing)

\* The list after the oldest particles were removed to make room.
roomMade(particles, newParticleCount, limit) ==
  IF Len(particles) + newParticleCount > limit
  THEN LET toRemove == mathMin(Len(particles),
                               (Len(particles) + newParticleCount) - limit)
       IN  SubSeq(particles, toRemove + 1, Len(particles))
  ELSE particles

\* The list after the grid of new particles was pushed.
withGrid(particles, newParticleCount) ==
  particles \o [i \in 1 .. newParticleCount |-> particlesCreated + i]

CreateWater ==
  \E size \in ParticleAreaSizes :
    LET newParticleCount == newParticleCountOf(size, WATER_PARTICLE_SPACING)
    IN  /\ particlesCreated + newParticleCount <= ParticlesMax
        /\ IF size[1] < MIN_PARTICLE_AREA_SIZE \/ size[2] < MIN_PARTICLE_AREA_SIZE
           THEN UNCHANGED << waterParticlesRef, particlesCreated >>
           ELSE /\ waterParticlesRef' =
                     withGrid(roomMade(waterParticlesRef, newParticleCount,
                                       MAX_WATER_PARTICLES), newParticleCount)
                /\ particlesCreated' = particlesCreated + newParticleCount
        /\ UNCHANGED << coreVars, boxesRef, boxHealthRef, bodiesCreated,
                        fireParticlesRef, drawingsRef, drawingStrokesRef,
                        currentStrokeRef, splatVars, laterVars >>

CreateFire ==
  \E size \in ParticleAreaSizes :
    LET newParticleCount == newParticleCountOf(size, FIRE_PARTICLE_SPACING)
    IN  /\ particlesCreated + newParticleCount <= ParticlesMax
        /\ IF size[1] < MIN_PARTICLE_AREA_SIZE \/ size[2] < MIN_PARTICLE_AREA_SIZE
           THEN UNCHANGED << fireParticlesRef, particlesCreated >>
           ELSE /\ fireParticlesRef' =
                     withGrid(roomMade(fireParticlesRef, newParticleCount,
                                       MAX_FIRE_PARTICLES), newParticleCount)
                /\ particlesCreated' = particlesCreated + newParticleCount
        /\ UNCHANGED << coreVars, boxesRef, boxHealthRef, bodiesCreated,
                        waterParticlesRef, drawingsRef, drawingStrokesRef,
                        currentStrokeRef, splatVars, laterVars >>

InitParticles ==
  /\ landmarks = BaseHand
  /\ otherLandmarks = BaseHand
  /\ call = NoCall
  /\ result = << >>
  /\ returned = NothingReturned
  /\ TrackerMounted

NextParticles == CreateWater \/ CreateFire \/ ClearAllBoxes

SpecParticles == InitParticles /\ [][NextParticles]_vars

\* C25 (as stated): the live water particles never number more than
\* MAX_WATER_PARTICLES and the live fire particles never more than
\* MAX_FIRE_PARTICLES, whatever rectangles createWater and createFire got.
C25_AtMostMaxParticles ==
  /\ Len(waterParticlesRef) <= MAX_WATER_PARTICLES
  /\ Len(fireParticlesRef) <= MAX_FIRE_PARTICLES

\* C25: createWater was given a 620x520 rectangle: a grid of 31 x 26
\* particles, all live.
C25_Witness ==
  /\ Len(waterParticlesRef) = 806
  /\ waterParticlesRef[Len(waterParticlesRef)] = particlesCreated

\* C25: the particles of each list are in creation order without gaps after
\* the first one, so the ones removed are the oldest; and a list longer
\* than its limit holds the grid of one call only.
C25_OldestRemovedFirst ==
  /\ \A i \in 1 .. Len(waterParticlesRef) - 1 :
       waterParticlesRef[i] < waterParticlesRef[i + 1]
  /\ \A i \in 1 .. Len(fireParticlesRef) - 1 :
       fireParticlesRef[i] < fireParticlesRef[i + 1]
  /\ Len(waterParticlesRef) > MAX_WATER_PARTICLES
       => waterParticlesRef[Len(waterParticlesRef)] - waterParticlesRef[1]
            = Len(waterParticlesRef) - 1
  /\ Len(fireParticlesRef) > MAX_FIRE_PARTICLES
       => fireParticlesRef[Len(fireParticlesRef)] - fireParticlesRef[1]
            = Len(fireParticlesRef) - 1

\* Water filled to the limit by removing the oldest particles of an earlier
\* grid.
C25_RoomMade ==
  /\ Len(waterParticlesRef) = MAX_WATER_PARTICLES
  /\ waterParticlesRef[1] > 1
  /\ waterParticlesRef[Len(waterParticlesRef)] - waterParticlesRef[1]
       > Len(waterParticlesRef)


\* ---------------------------------------------------------------------
\* GestureTracker (part_001): the SPLAT trigger of detectGestureCombos.
\* ---------------------------------------------------------------------

\* SPLAT_SIZE_INCREASE_THRESHOLD = 0.015, in thousandths.
SPLAT_SIZE_INCREASE_THRESHOLD == 15
SPLAT_HISTORY_LENGTH == 5
SPLAT_MIN_SAMPLES == 3
SPLAT_VISUAL_MS == 500
SPLAT_COOLDOWN_MS == 800

SplatClockMax == 2000
SplatGaps == {250}
SplatGrowths == {0, 1, 2}

\* An open palm facing the camera whose fingertips are `grown` cells
\* further from the wrist, or the same hand with a curled index finger.
SplatHand(grown, curled) ==
  [i \in HandLandmark |->
     IF i \in TipLandmarks
     THEN Moved(PalmPose(0, 5, 0, 0, 0, curled)[i], 0, 0 - grown, 0)
     ELSE PalmPose(0, 5, 0, 0, 0, curled)[i]]

\* results.multiHandLandmarks / multiHandedness of a frame: Undefined when
\* the frame carries no hand data, else the hands.
SplatFrameInputs ==
  {Undefined,
   Given(<< [handedness |-> "Right", landmarks |-> SplatHand(0, FALSE)] >>),
   Given(<< [handedness |-> "Right", landmarks |-> SplatHand(2, TRUE)],
            [handedness |-> "Left", landmarks |-> SplatHand(2, FALSE)] >>)}
    \cup { Given(<< [handedness |-> "Left", landmarks |-> SplatHand(g, FALSE)],
                    [handedness |-> "Right", landmarks |-> SplatHand(g, FALSE)] >>) :
             g \in SplatGrowths }

\* detectedHands of each frame: analyzeGesture(landmarks) and the label of
\* every hand.
detectedHands ==
  [frame \in SplatFrameInputs |->
     IF frame = Undefined THEN << >>
     ELSE [i \in DOMAIN frame[1] |->
             [gesture |-> analyzeGesture(frame[1][i].landmarks),
              handedness |-> frame[1][i].handedness]]]

\* Math.floor of a square root, by bisection between lo and hi.
RECURSIVE floorSqrtBetween(_, _, _)
floorSqrtBetween(n, lo, hi) ==
  IF hi - lo <= 1 THEN lo
  ELSE LET mid == (lo + hi) \div 2
       IN  IF mid * mid <= n THEN floorSqrtBetween(n, mid, hi)
           ELSE floorSqrtBetween(n, lo, mid)

floorSqrt(n) == floorSqrtBetween(n, 0, 2 * Unit)

RECURSIVE sumOfFloors(_)
sumOfFloors(squares) ==
  IF squares = << >> THEN 0
  ELSE floorSqrt(Head(squares)) + sumOfFloors(Tail(squares))

\* last - first > SPLAT_SIZE_INCREASE_THRESHOLD for two hand sizes (means of
\* five distances).  Each sum of roots lies within five units above its sum
\* of floors; the comparison is exact unless the increase is within that
\* margin of the threshold.
sizeIncreaseExceeds(last, first) ==
  sumOfFloors(last.sum) - (sumOfFloors(first.sum) + Len(first.sum))
    >= (last.den * SPLAT_SIZE_INCREASE_THRESHOLD * Unit) \div 1000

\* leftGettingBigger / rightGettingBigger of a history.
gettingBigger(history) ==
  /\ Len(history) >= SPLAT_MIN_SAMPLES
  /\ sizeIncreaseExceeds(history[Len(history)], history[1])

\* push, then shift when longer than SPLAT_HISTORY_LENGTH.
pushSample(history, size) ==
  LET pushed == Append(history, size)
  IN  IF Len(pushed) > SPLAT_HISTORY_LENGTH THEN Tail(pushed) ELSE pushed

\* handsModel.onResults of GestureTracker for one frame, as far as the
\* SPLAT trigger goes: analyzeGesture per hand, then detectGestureCombos.
SplatOnResults ==
  \E gap \in SplatGaps, frame \in SplatFrameInputs :
    LET now == clock + gap
        handData == detectedHands[frame]
        hand1 == handData[1]
        hand2 == handData[2]
        leftHand == IF hand1.handedness = "Left" THEN hand1 ELSE hand2
        rightHand == IF hand1.handedness = "Right" THEN hand1 ELSE hand2
        leftHistory == pushSample(handSizeHistoryRef.left, leftHand.gesture.handSize)
        rightHistory == pushSample(handSizeHistoryRef.right, rightHand.gesture.handSize)
        isSplatPose == /\ hand1.gesture.isOpen /\ hand2.gesture.isOpen
                       /\ hand1.gesture.isPalmFacingCamera
                       /\ hand2.gesture.isPalmFacingCamera
        handsMovingCloser == gettingBigger(leftHistory) /\ gettingBigger(rightHistory)
        trigger == isSplatPose /\ handsMovingCloser /\ ~prevSplatStateRef
                     /\ ~splatCooldownRef
    IN  /\ now <= SplatClockMax
        /\ \A t \in splatTimers : t.due >= now
        /\ clock' = now
        /\ splatFrames' = splatFrames + 1
        /\ multiHandedness' =
             IF frame = Undefined THEN Undefined
             ELSE Given([i \in DOMAIN frame[1] |-> frame[1][i].handedness])
        /\ landmarks' = IF Len(handData) >= 1 THEN frame[1][1].landmarks ELSE landmarks
        /\ otherLandmarks' =
             IF Len(handData) >= 2 THEN frame[1][2].landmarks ELSE otherLandmarks
        /\ IF frame = Undefined
           THEN UNCHANGED << handSizeHistoryRef, prevSplatStateRef, splatCooldownRef,
                             splatActive, splatTimers, splatsTriggered,
                             twoHandFramesSinceSplat, lastSplatAt >>
           ELSE IF Len(handData) = 2
           THEN /\ handSizeHistoryRef' =
                     IF trigger THEN [left |-> << >>, right |-> << >>]
                     ELSE [left |-> leftHistory, right |-> rightHistory]
                /\ prevSplatStateRef' = (isSplatPose /\ handsMovingCloser)
                /\ IF trigger
                   THEN /\ splatActive' = TRUE
                        /\ splatCooldownRef' = TRUE
                        /\ splatTimers' = splatTimers \cup
                             { [due |-> now + SPLAT_VISUAL_MS, clears |-> "splatActive"],
                               [due |-> now + SPLAT_COOLDOWN_MS, clears |-> "splatCooldownRef"] }
                        /\ splatsTriggered' = splatsTriggered + 1
                        /\ twoHandFramesSinceSplat' = 0
                        /\ lastSplatAt' = << now >>
                   ELSE /\ twoHandFramesSinceSplat' = twoHandFramesSinceSplat + 1
                        /\ UNCHANGED << splatActive, splatCooldownRef, splatTimers,
                                        splatsTriggered, lastSplatAt >>
           ELSE /\ prevSplatStateRef' = FALSE
                /\ handSizeHistoryRef' = [left |-> << >>, right |-> << >>]
                /\ UNCHANGED << splatCooldownRef, splatActive, splatTimers,
                                splatsTriggered, twoHandFramesSinceSplat, lastSplatAt >>
        /\ UNCHANGED << call, result, returned, interactionModeRef,
                        knucklesCooldownRef, prevKnucklesTogetherRef,
                        knucklesTogetherSinceRef, timers, heldSince, lastToggleAt,
                        onsetVars, styleVars, sceneVars, laterVars >>

\* A setTimeout callback of the trigger runs at its due time.
SplatTimerFires ==
  \E t \in splatTimers :
    /\ \A u \in splatTimers : u.due >= t.due
    /\ clock' = IF clock > t.due THEN clock ELSE t.due
    /\ splatTimers' = splatTimers \ {t}
    /\ IF t.clears = "splatActive"
       THEN splatActive' = FALSE /\ UNCHANGED splatCooldownRef
       ELSE splatCooldownRef' = FALSE /\ UNCHANGED splatActive
    /\ UNCHANGED << frameVars, call, result, returned, multiHandedness,
                    interactionModeRef, knucklesCooldownRef, prevKnucklesTogetherRef,
                    knucklesTogetherSinceRef, timers, heldSince, lastToggleAt,
                    onsetVars, styleVars, sceneVars, handSizeHistoryRef,
                    prevSplatStateRef, splatFrames, splatsTriggered,
                    twoHandFramesSinceSplat, lastSplatAt, laterVars >>

InitSplat ==
  /\ landmarks = BaseHand
  /\ otherLandmarks = BaseHand
  /\ call = NoCall
  /\ result = << >>
  /\ returned = NothingReturned
  /\ tracker = "part_001"
  /\ RefsMounted

NextSplat == SplatOnResults \/ SplatTimerFires

SpecSplat == InitSplat /\ [][NextSplat]_vars


\* The frame had exactly two hands.
TwoHandFrame(handedness) == handedness # Undefined /\ Len(handedness[1]) = 2

EmptyHistories == [left |-> << >>, right |-> << >>]

\* With the sample of skeleton lm added, the history holds at least three
\* samples and its newest exceeds its oldest by more than the threshold.
GrowsWith(history, lm) ==
  LET kept == IF Len(history) = SPLAT_HISTORY_LENGTH THEN Tail(history) ELSE history
  IN  /\ Len(kept) + 1 >= 3
      /\ sizeIncreaseExceeds(calculateHandSize(lm), kept[1])

\* What has to hold on a frame that triggers a SPLAT: two hands, both open
\* with the palm facing the camera, both histories grown, the previous frame
\* not a splat, no cooldown; afterwards the cooldown is set with its timer
\* and both histories are empty; and a further trigger comes no sooner than
\* the cooldown's end and the third two-hand frame after the last trigger.
SplatTriggerGuards ==
  splatsTriggered' # splatsTriggered =>
    /\ TwoHandFrame(multiHandedness')
    /\ isOpenOf(detectFingerStates(landmarks'))
    /\ isOpenOf(detectFingerStates(otherLandmarks'))
    /\ isPalmFacingCamera(landmarks') /\ isPalmFacingCamera(otherLandmarks')
    /\ GrowsWith(handSizeHistoryRef.left,
                 IF multiHandedness'[1][1] = "Left" THEN landmarks' ELSE otherLandmarks')
    /\ GrowsWith(handSizeHistoryRef.right,
                 IF multiHandedness'[1][1] = "Right" THEN landmarks' ELSE otherLandmarks')
    /\ ~prevSplatStateRef
    /\ ~splatCooldownRef
    /\ splatCooldownRef'
    /\ [due |-> clock' + SPLAT_COOLDOWN_MS, clears |-> "splatCooldownRef"] \in splatTimers'
    /\ handSizeHistoryRef' = EmptyHistories
    /\ lastSplatAt # << >> =>
         /\ clock' >= lastSplatAt[1] + SPLAT_COOLDOWN_MS
         /\ twoHandFramesSinceSplat + 1 >= 3

HistoriesShort ==
  /\ Len(handSizeHistoryRef'.left) <= SPLAT_HISTORY_LENGTH
  /\ Len(handSizeHistoryRef'.right) <= SPLAT_HISTORY_LENGTH

\* C26 (as stated): a SPLAT is triggered only under the guards above, the
\* histories never hold more than 5 samples, and both are emptied by every
\* frame that does not have exactly two hands.
C26_SplatGuardsAndHistories ==
  [][splatFrames' # splatFrames
       => /\ SplatTriggerGuards
          /\ HistoriesShort
          /\ ~TwoHandFrame(multiHandedness') => handSizeHistoryRef' = EmptyHistories]_vars

\* C26: a frame without hand data has been handled and the histories still
\* hold the samples of the frames before it.
C26_Witness ==
  /\ tracker = "part_001"
  /\ splatFrames >= 3
  /\ multiHandedness = Undefined
  /\ Len(handSizeHistoryRef.left) >= 2
  /\ Len(handSizeHistoryRef.right) >= 2

\* C26: the guards of a trigger and the length of the histories hold on
\* every frame, and every frame whose hand list has a length other than 2
\* empties both histories.
C26_GuardsAndReset ==
  [][splatFrames' # splatFrames
       => /\ SplatTriggerGuards
          /\ HistoriesShort
          /\ (multiHandedness' # Undefined /\ Len(multiHandedness'[1]) # 2)
               => handSizeHistoryRef' = EmptyHistories]_vars

\* A second SPLAT, triggered after the cooldown of the first one expired.
C26_SecondSplat ==
  /\ splatsTriggered = 2
  /\ splatCooldownRef
  /\ handSizeHistoryRef = EmptyHistories

\* Histories that were full before the latest sample was pushed.
C26_FullHistory ==
  /\ Len(handSizeHistoryRef.left) = SPLAT_HISTORY_LENGTH
  /\ splatFrames > SPLAT_HISTORY_LENGTH


\* ---------------------------------------------------------------------
\* Shape analysis of HandTracker (part_004): the thumb-to-ring trigger of
\* hands.onResults, the "Analyze frame" button, and handleAnalyzeFrame.
\* ---------------------------------------------------------------------

\* detectThumbRingPinch: distance < 0.08, in hundredths.
THUMB_RING_PINCH_DISTANCE == 8

RequestsMax == 3

\* The right hand shown: open, thumb tip 0.07 from the ring tip, and 0.08.
AnalysisHands ==
  { BaseHand,
    With(BaseHand, RING_FINGER_TIP :> Moved(BaseHand[THUMB_TIP], 7, 0, 0)),
    With(BaseHand, RING_FINGER_TIP :> Moved(BaseHand[THUMB_TIP], 8, 0, 0)) }

\* results of a frame: no hand data, or one Right hand.
AnalysisFrameInputs == {Undefined} \cup { Given(lm) : lm \in AnalysisHands }

detectThumbRingPinch(lm) ==
  100 * 100 * SqDist2(lm[THUMB_TIP], lm[RING_FINGER_TIP])
    < THUMB_RING_PINCH_DISTANCE * THUMB_RING_PINCH_DISTANCE * Unit * Unit

\* What outcomes a pending request can have: a failure (Undefined), or a
\* response with a number of matterBodies.
RequestOutcomes == {Undefined} \cup { Given(count) : count \in 0 .. AgentBodiesMax }

\* `isAnalyzing` as a render shows it: the guard of handleAnalyzeFrame (the
\* canvas is mounted) and the disabled attribute of the button.
analysisBlocked_never(isAnalyzingSeen) == FALSE
analysisBlocked(isAnalyzingSeen) == isAnalyzingSeen

\* handleAnalyzeFrame up to its first await, called from a render that saw
\* isAnalyzingSeen: the request is started unless the guard returns.
HandleAnalyzeFrame(isAnalyzingSeen) ==
  IF analysisBlocked(isAnalyzingSeen)
  THEN UNCHANGED << isAnalyzing, pendingRequests, analysesStarted >>
  ELSE /\ isAnalyzing' = TRUE
       /\ analysesStarted' = analysesStarted + 1
       /\ pendingRequests' = pendingRequests \cup {analysesStarted + 1}

\* hands.onResults for one frame, as far as the analysis goes.  The callback
\* was registered by the mount effect, so its handleAnalyzeFrame is the one
\* of the first render, where isAnalyzing is false.
AnalysisOnResults ==
  \E frame \in AnalysisFrameInputs :
    LET shouldTriggerAnalysis ==
          /\ frame # Undefined
          /\ interactionModeRef = "drawing"
          /\ detectThumbRingPinch(frame[1])
          /\ ~isIsAnalyzingRef
          /\ Len(drawingStrokesRef) > 0
    IN  /\ analysesStarted < RequestsMax
        /\ multiHandedness' = IF frame = Undefined THEN Undefined ELSE Given(<< "Right" >>)
        /\ landmarks' = IF frame = Undefined THEN landmarks ELSE frame[1]
        /\ IF frame = Undefined
           THEN /\ drawingStrokesRef' =
                     IF Len(currentStrokeRef) > 1
                     THEN Append(drawingStrokesRef, currentStrokeRef)
                     ELSE drawingStrokesRef
                /\ currentStrokeRef' = << >>
           ELSE UNCHANGED << drawingStrokesRef, currentStrokeRef >>
        /\ IF shouldTriggerAnalysis
           THEN /\ isIsAnalyzingRef' = TRUE
                /\ HandleAnalyzeFrame(FALSE)
           ELSE UNCHANGED analysisVars
        /\ UNCHANGED << otherLandmarks, call, result, returned, interactionModeRef,
                        knucklesCooldownRef, prevKnucklesTogetherRef,
                        knucklesTogetherSinceRef, clock, timers, heldSince,
                        lastToggleAt, onsetVars, styleVars, splatVars,
                        boxesRef, boxHealthRef, bodiesCreated, waterParticlesRef,
                        fireParticlesRef, particlesCreated, drawingsRef, toggleVars >>

\* A click on the "Analyze frame" button of the current render.
ClickAnalyzeFrame ==
  /\ analysesStarted < RequestsMax
  /\ ~analysisBlocked(isAnalyzing)
  /\ HandleAnalyzeFrame(isAnalyzing)
  /\ UNCHANGED << coreVars, sceneVars, splatVars, isIsAnalyzingRef, toggleVars >>

\* The rest of handleAnalyzeFrame once the fetch settled: applyAgentBodies
\* for a response with bodies, the catch for a failure, then the finally.
RequestSettles ==
  \E request \in pendingRequests, outcome \in RequestOutcomes :
    LET count == IF outcome = Undefined THEN 0 ELSE outcome[1]
        created == [i \in 1 .. count |-> bodiesCreated + i]
    IN  /\ bodiesCreated + count <= BodiesMax
        /\ pendingRequests' = pendingRequests \ {request}
        /\ bodiesCreated' = bodiesCreated + count
        /\ boxesRef' = boxesRef \o created
        /\ boxHealthRef' =
             [k \in DOMAIN boxHealthRef \cup Range(created) |->
                IF k \in Range(created) THEN FULL_HEALTH ELSE boxHealthRef[k]]
        /\ isAnalyzing' = FALSE
        /\ isIsAnalyzingRef' = FALSE
        /\ drawingStrokesRef' = << >>
        /\ currentStrokeRef' = << >>
        /\ UNCHANGED << coreVars, splatVars, waterParticlesRef, fireParticlesRef,
                        particlesCreated, drawingsRef, analysesStarted, toggleVars >>

InitAnalysis ==
  /\ landmarks = BaseHand
  /\ otherLandmarks = BaseHand
  /\ call = NoCall
  /\ result = << >>
  /\ returned = NothingReturned
  /\ TrackerMounted

NextAnalysis == AnalysisOnResults \/ ClickAnalyzeFrame \/ RequestSettles

\* Every fetch settles: it resolves or rejects.
SpecAnalysis == InitAnalysis /\ [][NextAnalysis]_vars /\ WF_vars(RequestSettles)

PINCH_ACTIVE_DISTANCE == 8
CANVAS_WIDTH == 1280
CANVAS_HEIGHT == 720
MIN_DRAWING_SIZE == 20

ToggleClockMax == 4400
ToggleGaps == {550}
Materials == {"solid", "water", "fire"}

\* Where the right hand is held, in cells from the left hand: two places
\* with the knuckles together, one with the hands apart.
PinchOffsets == { << 0, 0 >>, << 5, 5 >>, << 20, 0 >> }

\* The open hand at offset `o`, with the thumb tip brought to the index tip
\* when `pinched`.
PinchPose(o, pinched) ==
  LET moved == [i \in HandLandmark |-> Moved(BaseHand[i], o[1], o[2], 0)]
  IN  IF pinched
      THEN With(moved, [i \in {THUMB_TIP} |-> Moved(moved[INDEX_FINGER_TIP], 2, 0, 0)])
      ELSE moved

PinchPoses ==
  { PinchPose(o, pinched) : o \in PinchOffsets, pinched \in BOOLEAN }
    \ { PinchPose(<< 20, 0 >>, TRUE) }

\* The labels of a frame: no hand data, a right hand, or a left and a right hand.
ToggleHandedness == { Undefined, Given(<< "Right" >>), Given(<< "Left", "Right" >>) }

\* detectPinchGesture(landmarks): positions are in 1/Unit of a pixel.
detectPinchGesture(lm) ==
  [isPinchActive |->
     100 * 100 * SqDist2(lm[THUMB_TIP], lm[INDEX_FINGER_TIP])
       < PINCH_ACTIVE_DISTANCE * PINCH_ACTIVE_DISTANCE * Unit * Unit,
   position |-> [x |-> lm[INDEX_FINGER_TIP].x * CANVAS_WIDTH,
                 y |-> lm[INDEX_FINGER_TIP].y * CANVAS_HEIGHT]]

\* Math.abs(end.x - start.x), Math.abs(end.y - start.y), floored to pixels.
sizeBetween(start, end) ==
  << Abs(end.x - start.x) \div Unit, Abs(end.y - start.y) \div Unit >>

\* The physics world a creator works on.
sceneOf(boxes, health, bodies, water, fire, particles) ==
  [boxes |-> boxes, health |-> health, bodies |-> bodies,
   water |-> water, fire |-> fire, particles |-> particles]

\* createSolidBox(start, end) applied to `scene`.
createSolidBox(scene, start, end) ==
  LET size == sizeBetween(start, end)
      box == scene.bodies + 1
      pushed == Append(scene.boxes, box)
      kept == boxesAfterPush(pushed)
  IN  IF size[1] < MIN_BOX_SIZE \/ size[2] < MIN_BOX_SIZE
      THEN scene
      ELSE [scene EXCEPT
              !.bodies = box,
              !.boxes = kept,
              !.health = IF kept # pushed
                         THEN MapDelete(MapSet(scene.health, box, FULL_HEALTH), pushed[1])
                         ELSE MapSet(scene.health, box, FULL_HEALTH)]

\* The particle list after a grid of `count` new particles was pushed.
gridPushed(particles, created, count) ==
  particles \o [i \in 1 .. count |-> created + i]

\* createWater(start, end) applied to `scene`.
createWater(scene, start, end) ==
  LET size == sizeBetween(start, end)
      newParticleCount == newParticleCountOf(size, WATER_PARTICLE_SPACING)
  IN  IF size[1] < MIN_PARTICLE_AREA_SIZE \/ size[2] < MIN_PARTICLE_AREA_SIZE
      THEN scene
      ELSE [scene EXCEPT
              !.water = gridPushed(roomMade(scene.water, newParticleCount,
                                            MAX_WATER_PARTICLES),
                                   scene.particles, newParticleCount),
              !.particles = scene.particles + newParticleCount]

\* createFire(start, end) applied to `scene`.
createFire(scene, start, end) ==
  LET size == sizeBetween(start, end)
      newParticleCount == newParticleCountOf(size, FIRE_PARTICLE_SPACING)
  IN  IF size[1] < MIN_PARTICLE_AREA_SIZE \/ size[2] < MIN_PARTICLE_AREA_SIZE
      THEN scene
      ELSE [scene EXCEPT
              !.fire = gridPushed(roomMade(scene.fire, newParticleCount,
                                           MAX_FIRE_PARTICLES),
                                  scene.particles, newParticleCount),
              !.particles = scene.particles + newParticleCount]

\* Variant: every pending drawing made a solid box.
creatorFor_alwaysSolid(material) == "createSolidBox"

\* if (b.material === 'water') createWater … else if (b.material === 'fire')
\* createFire … else createSolidBox
creatorFor(material) ==
  IF material = "water" THEN "createWater"
  ELSE IF material = "fire" THEN "createFire"
  ELSE "createSolidBox"

\* One call of a creator on `scene`.
created(scene, creator, start, end) ==
  CASE creator = "createWater" -> createWater(scene, start, end)
    [] creator = "createFire" -> createFire(scene, start, end)
    [] OTHER -> createSolidBox(scene, start, end)

\* toConvert.forEach(…): the scene after drawings i .. were converted.
RECURSIVE converted(_, _, _)
converted(scene, toConvert, i) ==
  IF i > Len(toConvert) THEN scene
  ELSE converted(created(scene, creatorFor(toConvert[i].material),
                         toConvert[i].start, toConvert[i].end),
                 toConvert, i + 1)

\* The creator calls toConvert.forEach makes, in order.
creatorCalls(toConvert) ==
  [i \in 1 .. Len(toConvert) |->
     [creator |-> creatorFor(toConvert[i].material),
      start |-> toConvert[i].start, end |-> toConvert[i].end]]

\* The material buttons.
SelectMaterial ==
  \E id \in Materials :
    /\ currentMaterialRef' = id
    /\ handedToCreators' = << >>
    /\ UNCHANGED << coreVars, sceneVars, splatVars, analysisVars,
                    grabbedBoxRef, pinchStartRef, pinchCurrentRef >>

\* hands.onResults for one frame.  The frame's labels and skeletons are used
\* within the frame only, so they are inputs of the step and are not kept.
PinchOnResults ==
  \E gap \in ToggleGaps, handedness \in ToggleHandedness, right \in PinchPoses,
     closestBox \in {Undefined} \cup { Given(box) : box \in Range(boxesRef) } :
    LET now == clock + gap
        first == IF handedness # Undefined /\ Len(handedness[1]) = 2
                 THEN BaseHand ELSE right
        hands == << first, right >>
        found == BothHandsFound(handedness)
        pinch == detectPinchGesture(right)
        isPinchActive == pinch.isPinchActive
        pinchPosition == pinch.position
        isFreehand == drawingStyleRef = "freehand"
        \* the right-hand block of the hand loop
        startHeld == IF pinchStartRef = << >> THEN << pinchPosition >> ELSE pinchStartRef
        w == Abs(pinchCurrentRef[1].x - pinchStartRef[1].x)
        h == Abs(pinchCurrentRef[1].y - pinchStartRef[1].y)
        stored == IF /\ pinchStartRef # << >> /\ pinchCurrentRef # << >>
                     /\ ~isFreehand
                     /\ w >= MIN_DRAWING_SIZE * Unit /\ h >= MIN_DRAWING_SIZE * Unit
                  THEN Append(drawingsRef,
                              [start |-> pinchStartRef[1], end |-> pinchCurrentRef[1],
                               material |-> currentMaterialRef])
                  ELSE drawingsRef
        drawing == interactionModeRef = "drawing"
        loopStart == IF handedness = Undefined THEN << >>
                     ELSE IF ~drawing THEN pinchStartRef
                     ELSE IF isPinchActive THEN startHeld ELSE << >>
        loopCurrent == IF handedness = Undefined THEN << >>
                       ELSE IF ~drawing THEN pinchCurrentRef
                       ELSE IF isPinchActive THEN << pinchPosition >> ELSE << >>
        loopDrawings == IF handedness # Undefined /\ drawing /\ ~isPinchActive
                        THEN stored ELSE drawingsRef
        loopGrabbed == IF handedness = Undefined THEN << >>
                       ELSE IF drawing THEN grabbedBoxRef
                       ELSE IF ~isPinchActive THEN << >>
                       ELSE IF grabbedBoxRef = << >> THEN closestBox
                       ELSE grabbedBoxRef
        \* the knuckles-together block
        isKnucklesTogether == found /\ KnucklesTogether(handedness, hands)
        started == IF isKnucklesTogether /\ ~prevKnucklesTogetherRef
                   THEN << now >> ELSE knucklesTogetherSinceRef
        since == IF ~isKnucklesTogether THEN << >> ELSE started
        holdElapsed == IF since # << >> THEN now - since[1] ELSE 0
        heldLongEnough == holdElapsed >= KNUCKLES_HOLD_MS
        toggle == found /\ MayToggle(isKnucklesTogether, heldLongEnough)
        newMode == IF interactionModeRef = "drawing" THEN "physics" ELSE "drawing"
        convert == toggle /\ newMode = "physics" /\ Len(loopDrawings) > 0
        scene == sceneOf(boxesRef, boxHealthRef, bodiesCreated, waterParticlesRef,
                         fireParticlesRef, particlesCreated)
        after == IF convert THEN converted(scene, loopDrawings, 1) ELSE scene
    IN  /\ now <= ToggleClockMax
        /\ \A due \in timers : due >= now
        /\ (closestBox # Undefined) => (~drawing /\ handedness # Undefined
                                         /\ isPinchActive /\ grabbedBoxRef = << >>)
        /\ (handedness = Undefined) => (right = BaseHand)
        /\ clock' = now
        /\ IF found
           THEN /\ prevKnucklesTogetherRef' = isKnucklesTogether
                /\ knucklesTogetherSinceRef' =
                     IF toggle THEN sinceAfterToggle(since) ELSE since
           ELSE IF handedness # Undefined
           THEN /\ prevKnucklesTogetherRef' = FALSE
                /\ knucklesTogetherSinceRef' = << >>
           ELSE UNCHANGED << prevKnucklesTogetherRef, knucklesTogetherSinceRef >>
        /\ IF toggle
           THEN /\ interactionModeRef' = newMode
                /\ knucklesCooldownRef' = TRUE
                /\ timers' = timers \cup {now + KNUCKLES_COOLDOWN_MS}
                /\ lastToggleAt' = << now >>
                /\ grabbedBoxRef' = << >>
                /\ pinchStartRef' = << >>
                /\ pinchCurrentRef' = << >>
           ELSE /\ UNCHANGED << interactionModeRef, knucklesCooldownRef, timers,
                                lastToggleAt >>
                /\ grabbedBoxRef' = loopGrabbed
                /\ pinchStartRef' = loopStart
                /\ pinchCurrentRef' = loopCurrent
        /\ drawingsRef' = IF convert THEN << >> ELSE loopDrawings
        /\ handedToCreators' = IF convert THEN creatorCalls(loopDrawings) ELSE << >>
        /\ boxesRef' = after.boxes
        /\ boxHealthRef' = after.health
        /\ bodiesCreated' = after.bodies
        /\ waterParticlesRef' = after.water
        /\ fireParticlesRef' = after.fire
        /\ particlesCreated' = after.particles
        /\ heldSince' = IF isKnucklesTogether
                        THEN (IF heldSince = << >> THEN << now >> ELSE heldSince)
                        ELSE << >>
        /\ UNCHANGED << frameVars, multiHandedness, call, result, returned,
                        onsetVars, styleVars, drawingStrokesRef, currentStrokeRef,
                        splatVars, analysisVars, currentMaterialRef >>

\* The component some time after it mounted, with no gesture under way: in
\* drawing mode with nothing drawn yet, or in physics mode (after an earlier
\* toggle whose cooldown has ended) with one solid box in the world.
InitToggle ==
  /\ landmarks = BaseHand
  /\ otherLandmarks = BaseHand
  /\ call = NoCall
  /\ result = << >>
  /\ returned = NothingReturned
  /\ tracker = "part_004"
  /\ multiHandedness = Undefined
  /\ interactionModeRef \in {"drawing", "physics"}
  /\ knucklesCooldownRef = FALSE
  /\ prevKnucklesTogetherRef = FALSE
  /\ knucklesTogetherSinceRef = << >>
  /\ clock = 0
  /\ timers = {}
  /\ heldSince = << >>
  /\ lastToggleAt = << >>
  /\ OnsetRefsMounted
  /\ StyleMounted
  /\ SplatMounted
  /\ AnalysisMounted
  /\ PinchMounted
  /\ waterParticlesRef = << >>
  /\ fireParticlesRef = << >>
  /\ particlesCreated = 0
  /\ drawingsRef = << >>
  /\ drawingStrokesRef = << >>
  /\ currentStrokeRef = << >>
  /\ IF interactionModeRef = "physics"
     THEN /\ boxesRef = << 1 >>
          /\ boxHealthRef = MapSet(<< >>, 1, FULL_HEALTH)
          /\ bodiesCreated = 1
     ELSE /\ boxesRef = << >>
          /\ boxHealthRef = << >>
          /\ bodiesCreated = 0

NextToggle == PinchOnResults \/ SelectMaterial \/ CooldownTimerFires

SpecToggle == InitToggle /\ [][NextToggle]_vars


\* C28: a toggle that switches to physics leaves the pending-drawing list
\* empty, having handed every pending box drawing (those pending before the
\* frame, and the one a pinch released in the frame itself) to the creator
\* of its material, in order, each solid one making a body and water and
\* fire ones making particles; every toggle leaves grabbedBoxRef,
\* pinchStartRef and pinchCurrentRef null; a toggle to drawing leaves the
\* pending-drawing list as it was.
C28_ToggleConvertsAndCleans ==
  [][ (interactionModeRef' # interactionModeRef) =>
        LET handed == handedToCreators'
            matching(material) ==
              CASE material = "water" -> "createWater"
                [] material = "fire" -> "createFire"
                [] material = "solid" -> "createSolidBox"
            calls(creator) == { i \in 1 .. Len(handed) : handed[i].creator = creator }
        IN  /\ grabbedBoxRef' = << >>
            /\ pinchStartRef' = << >>
            /\ pinchCurrentRef' = << >>
            /\ (interactionModeRef' = "physics") =>
                 /\ drawingsRef' = << >>
                 /\ Len(handed) \in { Len(drawingsRef), Len(drawingsRef) + 1 }
                 /\ \A i \in 1 .. Len(drawingsRef) :
                      handed[i] = [creator |-> matching(drawingsRef[i].material),
                                   start |-> drawingsRef[i].start,
                                   end |-> drawingsRef[i].end]
                 /\ (Len(handed) = Len(drawingsRef) + 1) =>
                      /\ pinchStartRef # << >> /\ pinchCurrentRef # << >>
                      /\ handed[Len(handed)] =
                           [creator |-> matching(currentMaterialRef),
                            start |-> pinchStartRef[1], end |-> pinchCurrentRef[1]]
                 /\ bodiesCreated' = bodiesCreated + Cardinality(calls("createSolidBox"))
                 /\ (Len(waterParticlesRef') > Len(waterParticlesRef))
                      <=> (calls("createWater") # {})
                 /\ (Len(fireParticlesRef') > Len(fireParticlesRef))
                      <=> (calls("createFire") # {})
            /\ (interactionModeRef' = "drawing") => (drawingsRef' = drawingsRef)
    ]_vars

\* A toggle to physics has just handed two pending drawings of different
\* materials to two different creators.
C28_Witness ==
  /\ interactionModeRef = "physics"
  /\ lastToggleAt = << clock >>
  /\ Len(handedToCreators) = 2
  /\ handedToCreators[1].creator # handedToCreators[2].creator
  /\ drawingsRef = << >>
  /\ grabbedBoxRef = << >>
  /\ pinchStartRef = << >>
  /\ pinchCurrentRef = << >>


\* C29: in every detectPinch call, isPinching is true exactly when the
\* strength is greater than 0; and the call with the two finger arguments
\* swapped returns the same isPinching, strength and position, with the two
\* names of fingers in the reverse order.
C29_PinchOutputsAgreeAndSwap ==
  (call.fn = "detectPinch") =>
    LET swapped == detectPinch(landmarks, call.args[2], call.args[1], call.args[3])
    IN  /\ result.isPinching <=> NumLt(Const(0), result.strength)
        /\ swapped.isPinching = result.isPinching
        /\ NumEq(swapped.strength, result.strength)
        /\ swapped.position = result.position
        /\ swapped.fingers = << result.fingers[2], result.fingers[1] >>

\* A call on two different fingers whose tips are apart by less than the
\* threshold: a pinch with a strength strictly between 0 and 1, at a
\* midpoint that is neither tip.
C29_Witness ==
  /\ call.fn = "detectPinch"
  /\ call.args[1] # call.args[2]
  /\ call.args[3] # Undefined
  /\ result.isPinching
  /\ NumLt(Const(0), result.strength)
  /\ NumLt(result.strength, Const(1))
  /\ result.position.x # landmarks[call.args[1]].x
  /\ result.fingers[1] # result.fingers[2]

\* A call on two tips exactly the threshold apart: no pinch, strength 0.
C29_AtThreshold ==
  /\ call.fn = "detectPinch"
  /\ call.args[1] # call.args[2]
  /\ SqDist3(landmarks[call.args[1]], landmarks[call.args[2]])
       = ThresholdOf(call.args) * ThresholdOf(call.args)
  /\ ~result.isPinching
  /\ IsZero(result.strength)


(***************************************************************************)
(* Degenerate skeletons: all 21 landmarks at one point of a lattice, and,  *)
(* next to each, the skeletons with one landmark a cell away from it.      *)
(***************************************************************************)
DegenerateGridMax == 1
DegenerateStep == 50

\* Every landmark at `p`.
AllAt(p) == [i \in HandLandmark |-> p]

DegeneratePoints ==
  { G(x * DegenerateStep, y * DegenerateStep, (z * DegenerateStep) - 25) :
      x \in 0 .. DegenerateGridMax, y \in 0 .. DegenerateGridMax,
      z \in 0 .. DegenerateGridMax }

DegenerateSkeletons ==
  { AllAt(p) : p \in DegeneratePoints }
    \cup { With(AllAt(p), [j \in {i} |-> Moved(p, 1, 1, 1)]) :
             p \in DegeneratePoints, i \in HandLandmark }

InitDegenerate ==
  /\ landmarks \in DegenerateSkeletons
  /\ otherLandmarks = BaseHand
  /\ call = NoCall
  /\ result = << >>
  /\ returned = NothingReturned
  /\ TrackerMounted

NextDegenerate ==
  \/ CallAnalyzeGesture
  \/ CallDetectFingerStates
  \/ CallDetectAllPinches
  \/ CallIsPalmFacingCamera
  \/ Consume

SpecDegenerate == InitDegenerate /\ [][NextDegenerate]_vars

\* All 21 landmarks of the frame's skeleton coincide.
AllCoincide == \A i \in HandLandmark : landmarks[i] = landmarks[WRIST]

C30_NearlyDegenerate ==
  /\ call.fn = "analyzeGesture"
  /\ ~AllCoincide
  /\ ~result.isFist

=============================================================================
